---- MODULE Spec2Model ----
(***************************************************************************)
(* State-machine model of the arcade simulation engine                     *)
(* (src/lib/game/GameEngine.ts), its adversary factory                     *)
(* (src/unnamed/part_000), the Game component that drives the engine       *)
(* (src/unnamed/part_001), the mint endpoint (src/pages/api/mint-sbt.ts)   *)
(* and the token contract (src/contracts/BaseShooterSBT.sol).              *)
(*                                                                         *)
(* Base, Enemy and CollisionDetector are imported by GameEngine.ts but     *)
(* their files are not part of the sources at hand; they are modelled from *)
(* sections 4.1 and 4.3 of the specification.  Coordinates are integers.   *)
(* Date.now() is the variable now; every read inside one synchronous       *)
(* handler call returns the same value.                                    *)
(***************************************************************************)
EXTENDS Integers, Sequences, FiniteSets, TLC

VARIABLES
  now,            \* the wall clock read by Date.now()
  base,           \* GameEngine.base: [y, health]
  enemies,        \* GameEngine.enemies: sequence of adversary records
  bullets,        \* GameEngine.bullets: sequence of projectile records
  gameState,      \* GameEngine.gameState
  lastSpawnTime,  \* GameEngine.lastSpawnTime
  spawnInterval,  \* GameEngine.spawnInterval
  tick,           \* history: what the last engine call did (not program state)
  calls,          \* history: the number of steps of the run so far
  game,           \* the state of the Game component
  factory,        \* the last call of the adversary factory and what it returned
  api,            \* the mint endpoint: the request being handled and its progress
  sbt,            \* the token contract's storage and the outcome of the last call
  welcome         \* the state of the WelcomeScreen component and of its wallet calls

vars == <<now, base, enemies, bullets, gameState, lastSpawnTime, spawnInterval, tick, calls,
          game, factory, api, sbt, welcome>>

engineVars == <<base, enemies, bullets, gameState, lastSpawnTime, spawnInterval>>

(***************************************************************************)
(* Bounds of the model.                                                    *)
(***************************************************************************)
canvasWidth == 14
canvasHeight == 100
StartTime == 100000
MaxTime == 250000
MaxCalls == 8
MaxEnemies == 2
MaxBullets == 2
\* The factory is called with the levels (1 - LevelSlack)..(3 + LevelSlack).
LevelSlack == 3
\* Math.random() in the factory calls is k / DrawDenominator, 0 <= k < DrawDenominator.
DrawDenominator == 4
\* The token contract mints at most MaxTokens tokens, in batches of at most
\* MaxBatch.
MaxTokens == 3

MaxBatch == 2

\* The connect button of the welcome screen is pressed at most MaxAttempts
\* times.
MaxAttempts == 2

\* The clock advances the engine is observed under, in ms.
Deltas == {2000, 30000}

\* The values drawn for Math.random() in the archetype choice, as <<numerator,
\* denominator>>, and the vertical spawn coordinates drawn.
RandomDraws == {<<0, 4>>, <<3, 4>>}

SpawnYs == {0}

(***************************************************************************)
(* Arithmetic helpers.                                                     *)
(***************************************************************************)
Max(a, b) == IF a >= b THEN a ELSE b

Min(a, b) == IF a <= b THEN a ELSE b

\* Division rounding to the nearest integer, for b > 0.
RoundDiv(a, b) == IF a >= 0 THEN (2 * a + b) \div (2 * b) ELSE -((2 * (-a) + b) \div (2 * b))

\* Integer square root.
ISqrt(n) == CHOOSE k \in 0..(n + 1) : k * k <= n /\ (k + 1) * (k + 1) > n

Range(s) == {s[i] : i \in 1..Len(s)}

Ids(s) == {s[i].id : i \in 1..Len(s)}

\* s without its element at index i: Array.prototype.splice(i, 1).  An index
\* past the end removes nothing.
Splice(s, i) ==
  IF i \in 1..Len(s) THEN SubSeq(s, 1, i - 1) \o SubSeq(s, i + 1, Len(s)) ELSE s

\* The smallest identity no live object of s carries.
FreshId(s) == CHOOSE i \in 1..(Len(s) + 1) : i \notin Ids(s) /\ \A j \in 1..(i - 1) : j \in Ids(s)

(***************************************************************************)
(* Adversary factory (src/unnamed/part_000).                               *)
(***************************************************************************)
EnemyTypes == {"starkent", "scroll", "zksyn", "taiko", "linea", "op", "arb", "polygon"}

\* One archetype of the table.  speed2 is twice the configured speed, so that
\* the wave-3 speed of 1.5 stays an integer.
Config(t, h, s2, w, cs, si, l) ==
  [type |-> t, health |-> h, speed2 |-> s2, width |-> w, height |-> w,
   canShoot |-> cs, shootInterval |-> si, level |-> l]

\* The table with the wave-3 archetypes as fast as those of wave 2.
enemyConfigs_FastWave3 ==
  [l \in 1..3 |->
     CASE l = 1 -> [t \in {"starkent", "scroll", "zksyn", "taiko"} |->
                      Config(t, 30, 4, 50, FALSE, 0, 1)]
       [] l = 2 -> [t \in {"linea", "op"} |-> Config(t, 50, 6, 55, TRUE, 2000, 2)]
       [] l = 3 -> [t \in {"arb", "polygon"} |-> Config(t, 100, 6, 70, TRUE, 1500, 3)]]

\* EnemyFactory.enemyConfigs: level -> archetype -> configuration.
enemyConfigs ==
  [l \in 1..3 |->
     CASE l = 1 -> [t \in {"starkent", "scroll", "zksyn", "taiko"} |->
                      Config(t, 30, 4, 50, FALSE, 0, 1)]
       [] l = 2 -> [t \in {"linea", "op"} |-> Config(t, 50, 6, 55, TRUE, 2000, 2)]
       [] l = 3 -> [t \in {"arb", "polygon"} |-> Config(t, 100, 3, 70, TRUE, 1500, 3)]]

\* Object.keys(enemyConfigs[level]): the archetypes in the order of the table.
ConfigKeys(level) ==
  CASE level = 1 -> <<"starkent", "scroll", "zksyn", "taiko">>
    [] level = 2 -> <<"linea", "op">>
    [] level = 3 -> <<"arb", "polygon">>
    [] OTHER -> <<>>

\* EnemyFactory.getEnemyTypesForLevel: no archetype for an unknown level.
getEnemyTypesForLevel(level) ==
  IF level \in DOMAIN enemyConfigs THEN ConfigKeys(level) ELSE <<>>

\* The archetype createRandomEnemy picks for the draw r of Math.random():
\* enemyTypes[Math.floor(r * enemyTypes.length)].
RandomType(level, r) ==
  ConfigKeys(level)[(r[1] * Len(ConfigKeys(level))) \div r[2] + 1]

\* The configuration an adversary of archetype t carries (enemy.config).
ConfigOf(t) ==
  LET l == CHOOSE k \in DOMAIN enemyConfigs : t \in DOMAIN enemyConfigs[k]
  IN enemyConfigs[l][t]

(***************************************************************************)
(* Defender (Base), modelled from section 4.1 of the specification.        *)
(***************************************************************************)
BaseX == 2
BaseWidth == 8
BaseHeight == 40
BaseSpeed == 30
BaseMaxHealth == 20

\* new Base(canvasWidth, canvasHeight): vertically centred, at full health.
NewBase == [y |-> (canvasHeight - BaseHeight) \div 2, health |-> BaseMaxHealth]

\* Base.moveUp / Base.moveDown: clamped to the play area.
BaseMoveUp(b) == [b EXCEPT !.y = Max(0, b.y - BaseSpeed)]

BaseMoveDown(b) == [b EXCEPT !.y = Min(canvasHeight - BaseHeight, b.y + BaseSpeed)]

\* Base.takeDamage: subtracts, clamping at 0; and the same without the clamp.
BaseTakeDamage_NoClamp(b, d) == [b EXCEPT !.health = b.health - d]

BaseTakeDamage(b, d) == [b EXCEPT !.health = Max(0, b.health - d)]

\* Base.isAlive.
BaseIsAlive(b) == b.health > 0

\* Base.getCenter.
BaseCenter(b) == [x |-> BaseX + BaseWidth \div 2, y |-> b.y + BaseHeight \div 2]

(***************************************************************************)
(* Adversary (Enemy), modelled from section 4.1 of the specification.      *)
(* x2 is twice the x coordinate of the left edge.                          *)
(***************************************************************************)
EnemyBulletSpeed == 4
EnemyBulletDamage == 10
EnemyBulletSize == 10

\* new Enemy(config, canvasWidth, canvasHeight): at the edge opposite the
\* defender, at the drawn vertical coordinate.  strikes counts the melee hits
\* the adversary has inflicted, up to 2 (history).
NewEnemy(id, t, y) ==
  [id |-> id, type |-> t, x2 |-> 2 * canvasWidth, y |-> y,
   health |-> ConfigOf(t).health, lastShotTime |-> 0, strikes |-> 0]

\* Enemy.update: the position decreases along the travel axis by the speed.
EnemyUpdate(e) == [e EXCEPT !.x2 = e.x2 - ConfigOf(e.type).speed2]

\* Enemy.canShoot(now).
EnemyCanShoot(e, t) ==
  ConfigOf(e.type).canShoot /\ t - e.lastShotTime >= ConfigOf(e.type).shootInterval

\* Enemy.takeDamage.
EnemyTakeDamage(e, d) == [e EXCEPT !.health = Max(0, e.health - d)]

\* Enemy.isAlive.
EnemyIsAlive(e) == e.health > 0

\* Enemy.isOffScreen: the adversary has left the play area on its travel axis.
EnemyIsOffScreen(e) == e.x2 + 2 * ConfigOf(e.type).width < 0

\* Enemy.shoot(target): the projectile leaves the middle of the adversary's
\* leading edge on a straight line to the target, at the bullet speed.  age
\* counts the update() calls that have integrated the projectile (history).
EnemyShoot(e, id, target) ==
  LET c == ConfigOf(e.type)
      ox == e.x2 \div 2
      oy == e.y + c.height \div 2
      dx == target.x - ox
      dy == target.y - oy
      dist == Max(1, ISqrt(dx * dx + dy * dy))
  IN [id |-> id, x |-> ox, y |-> oy,
      vx |-> RoundDiv(dx * EnemyBulletSpeed, dist),
      vy |-> RoundDiv(dy * EnemyBulletSpeed, dist),
      width |-> EnemyBulletSize, height |-> EnemyBulletSize,
      isPlayerBullet |-> FALSE, damage |-> EnemyBulletDamage, age |-> 0]

(***************************************************************************)
(* Collision detector, modelled from section 4.3 of the specification:     *)
(* axis-aligned bounding boxes, strict comparisons.                        *)
(***************************************************************************)
Overlap(ax, ay, aw, ah, bx, by, bw, bh) ==
  ax < bx + bw /\ ax + aw > bx /\ ay < by + bh /\ ay + ah > by

\* CollisionDetector.bulletEnemyCollision (x compared in half units).
bulletEnemyCollision(b, e) ==
  LET c == ConfigOf(e.type)
  IN Overlap(2 * b.x, b.y, 2 * b.width, b.height, e.x2, e.y, 2 * c.width, c.height)

\* CollisionDetector.bulletBaseCollision.
bulletBaseCollision(b, bs) ==
  Overlap(b.x, b.y, b.width, b.height, BaseX, bs.y, BaseWidth, BaseHeight)

\* CollisionDetector.enemyBaseCollision (x compared in half units).
enemyBaseCollision(e, bs) ==
  LET c == ConfigOf(e.type)
  IN Overlap(e.x2, e.y, 2 * c.width, c.height, 2 * BaseX, bs.y, 2 * BaseWidth, BaseHeight)

(***************************************************************************)
(* Simulation engine (src/lib/game/GameEngine.ts).                         *)
(***************************************************************************)
\* GameEngine.levelDurations.
levelDurations == [l \in 1..3 |-> CASE l = 1 -> 30000 [] l = 2 -> 60000 [] l = 3 -> 40000]

\* The history of a call that is no update().
Idle == [kind |-> "none", melee |-> {}, hits |-> <<>>, matched |-> {}, felled |-> {},
         threat |-> {}, spawn |-> <<>>, culled |-> {}]

\* The GameState record of the constructor and of reset().
NewGameState(b, t) ==
  [score |-> 0, level |-> 1, playerHealth |-> b.health, maxPlayerHealth |-> BaseMaxHealth,
   isGameOver |-> FALSE, isPaused |-> FALSE, levelStartTime |-> t,
   levelDuration |-> levelDurations[1]]

\* The constructor, at time StartTime.
Init ==
  /\ now = StartTime
  /\ base = NewBase
  /\ enemies = <<>>
  /\ bullets = <<>>
  /\ gameState = NewGameState(NewBase, StartTime)
  /\ lastSpawnTime = 0
  /\ spawnInterval = 2000
  /\ tick = Idle
  /\ calls = 0

\* The projectile the defender fires, and the same with half the velocity and
\* with half the damage.
PlayerBullet_Weak(id, c) ==
  [id |-> id, x |-> c.x, y |-> c.y, vx |-> 8, vy |-> 0, width |-> 10, height |-> 10,
   isPlayerBullet |-> TRUE, damage |-> 10, age |-> 0]

PlayerBullet_Slow(id, c) ==
  [id |-> id, x |-> c.x, y |-> c.y, vx |-> 4, vy |-> 0, width |-> 10, height |-> 10,
   isPlayerBullet |-> TRUE, damage |-> 20, age |-> 0]

PlayerBullet(id, c) ==
  [id |-> id, x |-> c.x, y |-> c.y, vx |-> 8, vy |-> 0, width |-> 10, height |-> 10,
   isPlayerBullet |-> TRUE, damage |-> 20, age |-> 0]

\* nextLevel() with the two defects the wave claims are tested against: the
\* collections survive the transition, the duration of the new wave is not loaded.
NextLevelBody_KeepsBullets ==
  IF gameState.level < 3
  THEN /\ gameState' = [gameState EXCEPT !.level = gameState.level + 1,
                                          !.levelStartTime = now,
                                          !.levelDuration = levelDurations[gameState.level + 1]]
       /\ enemies' = <<>>
       /\ lastSpawnTime' = now
       /\ UNCHANGED <<base, bullets, spawnInterval>>
  ELSE /\ gameState' = [gameState EXCEPT !.isGameOver = TRUE]
       /\ UNCHANGED <<base, enemies, bullets, lastSpawnTime, spawnInterval>>

NextLevelBody_StaleDuration ==
  IF gameState.level < 3
  THEN /\ gameState' = [gameState EXCEPT !.level = gameState.level + 1,
                                          !.levelStartTime = now]
       /\ enemies' = <<>>
       /\ bullets' = <<>>
       /\ lastSpawnTime' = now
       /\ UNCHANGED <<base, spawnInterval>>
  ELSE /\ gameState' = [gameState EXCEPT !.isGameOver = TRUE]
       /\ UNCHANGED <<base, enemies, bullets, lastSpawnTime, spawnInterval>>

\* The body of nextLevel().
NextLevelBody ==
  IF gameState.level < 3
  THEN /\ gameState' = [gameState EXCEPT !.level = gameState.level + 1,
                                          !.levelStartTime = now,
                                          !.levelDuration = levelDurations[gameState.level + 1]]
       /\ enemies' = <<>>
       /\ bullets' = <<>>
       /\ lastSpawnTime' = now
       /\ UNCHANGED <<base, spawnInterval>>
  ELSE /\ gameState' = [gameState EXCEPT !.isGameOver = TRUE]
       /\ UNCHANGED <<base, enemies, bullets, lastSpawnTime, spawnInterval>>

\* The working state of one update(): the defender, both collections, the
\* score and the game-over flag, and the history of the call (the archetypes
\* of the adversaries the spawn step added, the adversaries that struck by
\* melee, the <<projectile, adversary>> hits in order, the
\* projectiles that matched a collision, the adversaries a projectile of the
\* defender took from health > 0 to health <= 0, the projectiles of the
\* adversaries that overlapped the defender when their pass began, the
\* projectiles the off-screen filter removed, each as <<identity, owner flag,
\* update() calls lived through>>, the projectile count after the shots).
Work(spawned) ==
  [base |-> base, enemies |-> spawned, bullets |-> bullets,
   score |-> gameState.score, isGameOver |-> gameState.isGameOver,
   melee |-> {}, hits |-> <<>>, matched |-> {}, felled |-> {}, threat |-> {}, culled |-> {},
   fired |-> 0,
   spawn |-> [i \in 1..(Len(spawned) - Len(enemies)) |-> spawned[Len(enemies) + i].type]]

\* One adversary of the adversary loop: it moves, shoots when ready and, when
\* it cannot shoot and touches the defender, strikes it.
EnemyStep(s, i, t) ==
  LET e1 == EnemyUpdate(s.enemies[i])
      shoots == EnemyCanShoot(e1, t)
      strike == ~ConfigOf(e1.type).canShoot /\ enemyBaseCollision(e1, s.base)
  IN [s EXCEPT
        !.bullets = IF shoots
                    THEN Append(@, EnemyShoot(e1, FreshId(@), BaseCenter(s.base)))
                    ELSE @,
        !.base = IF strike THEN BaseTakeDamage(@, 5) ELSE @,
        !.melee = IF strike THEN @ \cup {e1.id} ELSE @,
        !.enemies[i] =
           IF strike
           THEN [EnemyTakeDamage(e1, 100) EXCEPT !.strikes = Min(2, e1.strikes + 1)]
           ELSE IF shoots THEN [e1 EXCEPT !.lastShotTime = t]
           ELSE e1]

\* The adversary loop of update(), from index i on.
RECURSIVE EnemyLoop(_, _, _)
EnemyLoop(s, i, t) ==
  IF i > Len(s.enemies) THEN [s EXCEPT !.fired = Len(s.bullets)]
  ELSE EnemyLoop(EnemyStep(s, i, t), i + 1, t)

\* Projectile integration.
MoveBullet(b) == [b EXCEPT !.x = b.x + b.vx, !.y = b.y + b.vy]

MoveBullets(bl) == [i \in 1..Len(bl) |-> MoveBullet(bl[i])]

\* The test of the off-screen filter of the projectiles, and the same with a
\* margin of 60.
InExpandedBounds_Wide(b) ==
  b.x > -60 /\ b.x < canvasWidth + 60 /\ b.y > -60 /\ b.y < canvasHeight + 60

InExpandedBounds(b) ==
  b.x > -50 /\ b.x < canvasWidth + 50 /\ b.y > -50 /\ b.y < canvasHeight + 50

NotOffScreen(e) == ~EnemyIsOffScreen(e)

\* Projectile integration and both off-screen filters.
Integrate(s) ==
  [s EXCEPT !.bullets = SelectSeq(MoveBullets(@), InExpandedBounds),
            !.enemies = SelectSeq(@, NotOffScreen),
            !.culled = {<<b.id, b.isPlayerBullet, b.age + 1>> :
                          b \in {c \in Range(MoveBullets(s.bullets)) : ~InExpandedBounds(c)}}]

\* The callback on a match with a defect the score claims are tested against:
\* a kill costs the points instead of earning them.
PlayerBulletHit_Penalty(s, bullet, bulletIndex, j, level) ==
  LET e1 == EnemyTakeDamage(s.enemies[j], bullet.damage)
  IN [s EXCEPT
        !.bullets = Splice(@, bulletIndex),
        !.enemies = IF EnemyIsAlive(e1) THEN [@ EXCEPT ![j] = e1] ELSE Splice(@, j),
        !.score = IF EnemyIsAlive(e1) THEN @ ELSE @ - 10 * level,
        !.hits = Append(@, <<bullet.id, e1.id>>),
        !.matched = @ \cup {bullet.id},
        !.felled = IF EnemyIsAlive(s.enemies[j]) /\ ~EnemyIsAlive(e1)
                   THEN @ \cup {e1.id} ELSE @]

\* The callback of the inner forEach on a match: the adversary at index j takes
\* the damage, whatever the projectile array holds at bulletIndex is removed,
\* and a dead adversary is scored and removed.
PlayerBulletHit(s, bullet, bulletIndex, j, level) ==
  LET e1 == EnemyTakeDamage(s.enemies[j], bullet.damage)
  IN [s EXCEPT
        !.bullets = Splice(@, bulletIndex),
        !.enemies = IF EnemyIsAlive(e1) THEN [@ EXCEPT ![j] = e1] ELSE Splice(@, j),
        !.score = IF EnemyIsAlive(e1) THEN @ ELSE @ + 10 * level,
        !.hits = Append(@, <<bullet.id, e1.id>>),
        !.matched = @ \cup {bullet.id},
        !.felled = IF EnemyIsAlive(s.enemies[j]) /\ ~EnemyIsAlive(e1)
                   THEN @ \cup {e1.id} ELSE @]

\* The inner forEach over the adversaries for one defender-owned projectile:
\* index j of n, on the live array.  The callback keeps the projectile it was
\* called with.
RECURSIVE PlayerBulletInner(_, _, _, _, _, _)
PlayerBulletInner(s, bullet, bulletIndex, j, n, level) ==
  IF j > n \/ j > Len(s.enemies) THEN s
  ELSE PlayerBulletInner(
         IF bulletEnemyCollision(bullet, s.enemies[j])
         THEN PlayerBulletHit(s, bullet, bulletIndex, j, level)
         ELSE s,
         bullet, bulletIndex, j + 1, n, level)

\* The outer forEach over the projectiles: index k of n, on the live array.
RECURSIVE PlayerBulletOuter(_, _, _, _)
PlayerBulletOuter(s, k, n, level) ==
  IF k > n \/ k > Len(s.bullets) THEN s
  ELSE PlayerBulletOuter(
         IF s.bullets[k].isPlayerBullet
         THEN PlayerBulletInner(s, s.bullets[k], k, 1, Len(s.enemies), level)
         ELSE s,
         k + 1, n, level)

\* The callback of the forEach of the adversary-owned projectiles on a match.
EnemyBulletHit(s, k) ==
  [s EXCEPT !.base = BaseTakeDamage(@, s.bullets[k].damage),
            !.bullets = Splice(@, k),
            !.isGameOver = @ \/ ~BaseIsAlive(BaseTakeDamage(s.base, s.bullets[k].damage)),
            !.matched = @ \cup {s.bullets[k].id}]

\* The forEach of the adversary-owned projectiles against the defender: index
\* k of n, on the live array.
RECURSIVE EnemyBulletLoop(_, _, _)
EnemyBulletLoop(s, k, n) ==
  IF k > n \/ k > Len(s.bullets) THEN s
  ELSE EnemyBulletLoop(
         IF ~s.bullets[k].isPlayerBullet /\ bulletBaseCollision(s.bullets[k], s.base)
         THEN EnemyBulletHit(s, k)
         ELSE s,
         k + 1, n)

\* The collision passes of update().
ResolvePlayer(s, level) == PlayerBulletOuter(s, 1, Len(s.bullets), level)

ResolveEnemy(s) ==
  EnemyBulletLoop(
    [s EXCEPT !.threat = {s.bullets[k].id : k \in {i \in 1..Len(s.bullets) :
                            /\ ~s.bullets[i].isPlayerBullet
                            /\ bulletBaseCollision(s.bullets[i], s.base)}}],
    1, Len(s.bullets))

\* spawnEnemies(currentTime) is due, and the same with the interval ignored.
SpawnDue_Always == now - lastSpawnTime >= 0

SpawnDue == now - lastSpawnTime >= spawnInterval

\* The spawn interval spawnEnemies() sets after a spawn at the given level, and
\* the same without the ramp.
NextSpawnInterval_Flat(level) == Max(800, 2000)

NextSpawnInterval(level) == Max(800, 2000 - (level - 1) * 200)

\* The state update() leaves, past both early returns, from the adversaries
\* after the spawn step.
UpdateResult(spawned) ==
  ResolveEnemy(ResolvePlayer(Integrate(EnemyLoop(Work(spawned), 1, now)), gameState.level))

\* The assignments of update() past both early returns, and the same without
\* the refresh of the health mirror.
Commit_StaleMirror(r) ==
  /\ Len(r.bullets) <= MaxBullets
  /\ base' = r.base
  /\ enemies' = r.enemies
  /\ bullets' = [i \in 1..Len(r.bullets) |-> [r.bullets[i] EXCEPT !.age = @ + 1]]
  /\ gameState' = [gameState EXCEPT !.score = r.score,
                                    !.isGameOver = r.isGameOver]
  /\ tick' = [kind |-> "full", melee |-> r.melee, hits |-> r.hits, matched |-> r.matched,
              felled |-> r.felled, threat |-> r.threat, spawn |-> r.spawn,
              culled |-> r.culled]

Commit(r) ==
  /\ Len(r.bullets) <= MaxBullets
  /\ base' = r.base
  /\ enemies' = r.enemies
  /\ bullets' = [i \in 1..Len(r.bullets) |-> [r.bullets[i] EXCEPT !.age = @ + 1]]
  /\ gameState' = [gameState EXCEPT !.score = r.score,
                                    !.playerHealth = r.base.health,
                                    !.isGameOver = r.isGameOver]
  /\ tick' = [kind |-> "full", melee |-> r.melee, hits |-> r.hits, matched |-> r.matched,
              felled |-> r.felled, threat |-> r.threat, spawn |-> r.spawn,
              culled |-> r.culled]

UpdateBody(spawned) == Commit(UpdateResult(spawned))

\* Every step of a run counts toward its length.
Counted == calls < MaxCalls /\ calls' = calls + 1

\* The first early return of update(), and the same without the pause test.
EarlyReturn_IgnoresPause == gameState.isGameOver

EarlyReturn == gameState.isPaused \/ gameState.isGameOver

\* The wave-duration test of update(), and the same with a strict comparison.
LevelElapsed_Strict == now - gameState.levelStartTime > gameState.levelDuration

LevelElapsed == now - gameState.levelStartTime >= gameState.levelDuration

\* update(): one frame of the game loop.
update ==
  /\ Counted
  /\ UNCHANGED now
  /\ IF EarlyReturn
     THEN /\ UNCHANGED engineVars
          /\ tick' = [Idle EXCEPT !.kind = "noop"]
     ELSE IF LevelElapsed
     THEN /\ NextLevelBody
          /\ tick' = [Idle EXCEPT !.kind = "transition"]
     ELSE IF SpawnDue
     THEN /\ Len(enemies) < MaxEnemies
          /\ lastSpawnTime' = now
          /\ spawnInterval' = NextSpawnInterval(gameState.level)
          /\ \E r \in RandomDraws, y \in SpawnYs :
               UpdateBody(Append(enemies,
                                 NewEnemy(FreshId(enemies), RandomType(gameState.level, r), y)))
     ELSE /\ UNCHANGED <<lastSpawnTime, spawnInterval>>
          /\ UpdateBody(enemies)

\* nextLevel(), called directly.
nextLevel ==
  /\ Counted
  /\ NextLevelBody
  /\ tick' = Idle
  /\ UNCHANGED now

\* shoot().
shoot ==
  /\ Counted
  /\ Len(bullets) < MaxBullets
  /\ bullets' = Append(bullets, PlayerBullet(FreshId(bullets), BaseCenter(base)))
  /\ tick' = [Idle EXCEPT !.kind = "shoot"]
  /\ UNCHANGED <<now, base, enemies, gameState, lastSpawnTime, spawnInterval>>

\* base.moveUp(CANVAS_HEIGHT), as the touch handler calls it.
moveUp ==
  /\ Counted
  /\ base' = BaseMoveUp(base)
  /\ tick' = Idle
  /\ UNCHANGED <<now, enemies, bullets, gameState, lastSpawnTime, spawnInterval>>

\* base.moveDown(CANVAS_HEIGHT), as the touch handler calls it.
moveDown ==
  /\ Counted
  /\ base' = BaseMoveDown(base)
  /\ tick' = Idle
  /\ UNCHANGED <<now, enemies, bullets, gameState, lastSpawnTime, spawnInterval>>

\* handlePause: the pause toggle.
handlePause ==
  /\ Counted
  /\ gameState' = [gameState EXCEPT !.isPaused = ~gameState.isPaused]
  /\ tick' = Idle
  /\ UNCHANGED <<now, base, enemies, bullets, lastSpawnTime, spawnInterval>>

\* reset() with a defect the reset claim is tested against: the pause flag
\* survives.
reset_KeepsPause ==
  /\ Counted
  /\ base' = NewBase
  /\ enemies' = <<>>
  /\ bullets' = <<>>
  /\ gameState' = [NewGameState(NewBase, now) EXCEPT !.isPaused = gameState.isPaused]
  /\ lastSpawnTime' = now
  /\ tick' = [Idle EXCEPT !.kind = "reset"]
  /\ UNCHANGED <<now, spawnInterval>>

\* reset().
reset ==
  /\ Counted
  /\ base' = NewBase
  /\ enemies' = <<>>
  /\ bullets' = <<>>
  /\ gameState' = NewGameState(NewBase, now)
  /\ lastSpawnTime' = now
  /\ tick' = [Idle EXCEPT !.kind = "reset"]
  /\ UNCHANGED <<now, spawnInterval>>

\* Time passes between two calls.
Clock ==
  /\ Counted
  /\ \E d \in Deltas : now + d <= MaxTime /\ now' = now + d
  /\ tick' = Idle
  /\ UNCHANGED engineVars

(***************************************************************************)
(* Calls of the adversary factory (src/unnamed/part_000).                  *)
(***************************************************************************)
\* The value null a factory call returns when it has no entity.
Null == [null |-> TRUE]

\* The levels and the draws of Math.random() the factory is called with.
FactoryLevels == (1 - LevelSlack)..(3 + LevelSlack)

FactoryDraws == {<<k, DrawDenominator>> : k \in 0..(DrawDenominator - 1)}

\* createEnemy without the test of the archetype against the level's table.
createEnemy_AnyWave(t, level, y) ==
  IF level \notin DOMAIN enemyConfigs THEN Null ELSE NewEnemy(0, t, y)

\* EnemyFactory.createRandomEnemy: null for a level without a table, else an
\* adversary of the archetype the draw picks.
createRandomEnemy(level, r, y) ==
  IF level \notin DOMAIN enemyConfigs THEN Null ELSE NewEnemy(0, RandomType(level, r), y)

\* EnemyFactory.createEnemy: null for a level without a table or an archetype
\* that is not in the level's table.
createEnemy(t, level, y) ==
  IF level \notin DOMAIN enemyConfigs \/ t \notin DOMAIN enemyConfigs[level]
  THEN Null
  ELSE NewEnemy(0, t, y)

\* No factory call has been made.
NoCall == [op |-> "none", level |-> 0, type |-> "", draw |-> <<0, 1>>, result |-> Null]

elsewhereOfFactory ==
  <<now, base, enemies, bullets, gameState, lastSpawnTime, spawnInterval, tick, calls,
    game, api, sbt, welcome>>

GetEnemyTypesForLevelCall ==
  /\ \E l \in FactoryLevels :
       factory' = [op |-> "getEnemyTypesForLevel", level |-> l, type |-> "",
                   draw |-> <<0, 1>>, result |-> getEnemyTypesForLevel(l)]
  /\ UNCHANGED elsewhereOfFactory

CreateRandomEnemyCall ==
  /\ \E l \in FactoryLevels, r \in FactoryDraws, y \in SpawnYs :
       factory' = [op |-> "createRandomEnemy", level |-> l, type |-> "",
                   draw |-> r, result |-> createRandomEnemy(l, r, y)]
  /\ UNCHANGED elsewhereOfFactory

CreateEnemyCall ==
  /\ \E t \in EnemyTypes, l \in FactoryLevels, y \in SpawnYs :
       factory' = [op |-> "createEnemy", level |-> l, type |-> t,
                   draw |-> <<0, 1>>, result |-> createEnemy(t, l, y)]
  /\ UNCHANGED elsewhereOfFactory

NextFactory ==
  \/ GetEnemyTypesForLevelCall
  \/ CreateRandomEnemyCall
  \/ CreateEnemyCall

(***************************************************************************)
(* The mint endpoint (src/pages/api/mint-sbt.ts).  A request is its method *)
(* and its body; the configuration is SBT_CONFIG and the environment; the  *)
(* chain decides what contract.mint and tx.wait do.                        *)
(***************************************************************************)
Methods == {"GET", "POST"}

\* req.body: the JSON value null, an object without address, an object with
\* an empty address, with a string that is no address, with an address.
Bodies == {"null", "noAddress", "emptyAddress", "malformed", "valid"}

\* SBT_CONFIG.CONTRACT_ADDRESS, SBT_CONFIG.CONTRACT_ABI and
\* process.env.SBT_MINTER_PRIVATE_KEY, each set or not.
Configs == [contractAddress : BOOLEAN, abi : BOOLEAN, privateKey : BOOLEAN]

\* The errors ethers throws, by code and message.
InsufficientFunds == [code |-> "INSUFFICIENT_FUNDS", message |-> "insufficient funds for gas"]

UserRejected == [code |-> "ACTION_REJECTED", message |-> "user rejected action"]

Reverted == [code |-> "CALL_EXCEPTION", message |-> "execution reverted"]

Unknown == [code |-> "UNKNOWN_ERROR", message |-> ""]

\* What destructuring a null body throws.
TypeError == [code |-> "", message |-> "Cannot destructure property 'address' of 'req.body' as it is null."]

\* An awaited call returns (for tx.wait(), a receipt with a status) or throws.
Returns(st) == [throws |-> FALSE, err |-> Unknown, status |-> st]

Throws(e) == [throws |-> TRUE, err |-> e, status |-> 0]

\* contract.mint(address): the transaction is sent or the call throws.
MintOutcomes == {Returns(1), Throws(InsufficientFunds), Throws(UserRejected), Throws(Reverted),
                 Throws(Unknown)}

\* tx.wait(): a receipt with status 1 or 0, or the call throws.
WaitOutcomes == {Returns(1), Returns(0), Throws(Reverted)}

\* error.message?.includes('user rejected')
IncludesUserRejected(m) == m \in {"user rejected action"}

\* res.status(st).json({success: false, error: e}); minted counts the calls
\* of contract.mint the handler made.
Failure(st, e, minted) ==
  [status |-> st, success |-> FALSE, error |-> e, txHash |-> "", minted |-> minted]

\* res.status(200).json({success: true, message, txHash: tx.hash})
Success == [status |-> 200, success |-> TRUE, error |-> "", txHash |-> "tx.hash", minted |-> 1]

\* The catch block.
Catch(err, minted) ==
  IF err.code = "INSUFFICIENT_FUNDS" THEN Failure(500, "Insufficient funds for transaction", minted)
  ELSE IF IncludesUserRejected(err.message) THEN Failure(400, "Transaction was rejected", minted)
  ELSE Failure(500, IF err.message # "" THEN err.message ELSE "Failed to mint SBT", minted)

\* The handler that answers success as soon as the transaction is mined,
\* whatever the status of its receipt.
handler_TrustsReceipt(method, body, cfg, mintOutcome, waitOutcome) ==
  IF method # "POST" THEN Failure(405, "Method not allowed", 0)
  ELSE IF body = "null" THEN Catch(TypeError, 0)
  ELSE IF body \in {"noAddress", "emptyAddress"} THEN Failure(400, "Wallet address is required", 0)
  ELSE IF body = "malformed" THEN Failure(400, "Invalid wallet address format", 0)
  ELSE IF ~cfg.contractAddress THEN Failure(500, "SBT contract address not configured. Please set CONTRACT_ADDRESS in config/sbt-config.ts", 0)
  ELSE IF ~cfg.abi THEN Failure(500, "SBT contract ABI not configured. Please set CONTRACT_ABI in config/sbt-config.ts", 0)
  ELSE IF ~cfg.privateKey THEN Failure(500, "Server configuration error: Private key not set in environment variables", 0)
  ELSE IF mintOutcome.throws THEN Catch(mintOutcome.err, 1)
  ELSE IF waitOutcome.throws THEN Catch(waitOutcome.err, 1)
  ELSE Success

\* handler: the checks in the order of the code, then the transaction.
\* Destructuring req.body is inside the try block, so a null body ends in the
\* catch block.
handler(method, body, cfg, mintOutcome, waitOutcome) ==
  IF method # "POST" THEN Failure(405, "Method not allowed", 0)
  ELSE IF body = "null" THEN Catch(TypeError, 0)
  ELSE IF body \in {"noAddress", "emptyAddress"} THEN Failure(400, "Wallet address is required", 0)
  ELSE IF body = "malformed" THEN Failure(400, "Invalid wallet address format", 0)
  ELSE IF ~cfg.contractAddress THEN Failure(500, "SBT contract address not configured. Please set CONTRACT_ADDRESS in config/sbt-config.ts", 0)
  ELSE IF ~cfg.abi THEN Failure(500, "SBT contract ABI not configured. Please set CONTRACT_ABI in config/sbt-config.ts", 0)
  ELSE IF ~cfg.privateKey THEN Failure(500, "Server configuration error: Private key not set in environment variables", 0)
  ELSE IF mintOutcome.throws THEN Catch(mintOutcome.err, 1)
  ELSE IF waitOutcome.throws THEN Catch(waitOutcome.err, 1)
  ELSE IF waitOutcome.status = 1
       THEN Success
       ELSE Failure(500, "Transaction failed", 1)

\* No request has been handled.
NoRequest ==
  [method |-> "", body |-> "", cfg |-> [contractAddress |-> FALSE, abi |-> FALSE, privateKey |-> FALSE],
   mintOutcome |-> Returns(1), waitOutcome |-> Returns(1), res |-> Failure(0, "", 0)]

\* One request handled from its arrival to its response.
HandleRequest ==
  /\ \E method \in Methods, body \in Bodies, cfg \in Configs,
        mintOutcome \in MintOutcomes, waitOutcome \in WaitOutcomes :
       api' = [method |-> method, body |-> body, cfg |-> cfg,
               mintOutcome |-> mintOutcome, waitOutcome |-> waitOutcome,
               res |-> handler(method, body, cfg, mintOutcome, waitOutcome)]
  /\ UNCHANGED <<now, base, enemies, bullets, gameState, lastSpawnTime, spawnInterval,
                 tick, calls, game, factory, sbt, welcome>>

NextMint == HandleRequest

(***************************************************************************)
(* The token contract (src/contracts/BaseShooterSBT.sol).  Address 0 is    *)
(* address(0); a call that reverts leaves the storage as it was.  ERC721   *)
(* and Ownable are the imported OpenZeppelin contracts.                    *)
(***************************************************************************)
\* The accounts that call the contract and receive tokens.
Callers == {1, 2}

Addresses == {0} \cup Callers

TokenIds == 0..(MaxTokens - 1)

URIs == {"ipfs://a", "ipfs://b"}

\* recipients.length <= 100
BatchLimit == 100

\* The storage after the constructor, deployed by address 1.
NewStorage ==
  [owner |-> 1, baseTokenURI |-> "ipfs://a", tokenCounter |-> 0,
   owners |-> [id \in TokenIds |-> 0],
   tokenApprovals |-> [id \in TokenIds |-> 0],
   operatorApprovals |-> {},
   tokenURIs |-> [id \in TokenIds |-> ""],
   tokensByOwner |-> [a \in Addresses |-> <<>>]]

\* The result of a call: it reverted, or it went through with a new storage.
Revert(st) == [reverted |-> TRUE, st |-> st]

Done(st) == [reverted |-> FALSE, st |-> st]

\* ERC721._ownerOf
ownerOf(st, tokenId) == IF tokenId \in TokenIds THEN st.owners[tokenId] ELSE 0

\* ERC721._update: checks the authorisation unless auth is address(0),
\* clears the approval and writes the new owner.
ERC721Update(st, to, tokenId, auth) ==
  LET from == ownerOf(st, tokenId)
  IN IF auth # 0 /\ from = 0 THEN Revert(st)
     ELSE IF auth # 0 /\ auth # from /\ st.tokenApprovals[tokenId] # auth
                      /\ <<from, auth>> \notin st.operatorApprovals THEN Revert(st)
     ELSE Done([st EXCEPT !.owners[tokenId] = to, !.tokenApprovals[tokenId] = 0])

\* _update without the contract's override: ERC721's own.
Update_Inherited(st, to, tokenId, auth) == ERC721Update(st, to, tokenId, auth)

\* BaseShooterSBT._update: a token without an owner is being minted and goes
\* to ERC721._update; anything else reverts.
Update(st, to, tokenId, auth) ==
  IF ownerOf(st, tokenId) = 0 THEN ERC721Update(st, to, tokenId, auth) ELSE Revert(st)

\* ERC721._safeMint: _mint through _update with auth address(0), then the
\* receiver's onERC721Received, which accepts the token or not.
SafeMint(st, to, tokenId, accepted) ==
  IF to = 0 THEN Revert(st)
  ELSE LET r == Update(st, to, tokenId, 0)
       IN IF r.reverted \/ ~accepted THEN Revert(st) ELSE r

\* The body of mint without the push to _tokensByOwner.
MintOne_NoList(st, to, accepted) ==
  IF to = 0 THEN Revert(st)
  ELSE LET tokenId == st.tokenCounter
           r == SafeMint([st EXCEPT !.tokenCounter = tokenId + 1], to, tokenId, accepted)
       IN IF r.reverted THEN Revert(st)
          ELSE Done([r.st EXCEPT !.tokenURIs[tokenId] = st.baseTokenURI])

\* The body of mint and of one round of batchMint's loop.
MintOne(st, to, accepted) ==
  IF to = 0 THEN Revert(st)
  ELSE LET tokenId == st.tokenCounter
           r == SafeMint([st EXCEPT !.tokenCounter = tokenId + 1], to, tokenId, accepted)
       IN IF r.reverted THEN Revert(st)
          ELSE Done([r.st EXCEPT !.tokenURIs[tokenId] = st.baseTokenURI,
                                 !.tokensByOwner[to] = Append(@, tokenId)])

RECURSIVE MintAll(_, _, _)
\* batchMint's loop over the recipients.
MintAll(st, recipients, accepted) ==
  IF recipients = <<>> THEN Done(st)
  ELSE LET r == MintOne(st, Head(recipients), accepted)
       IN IF r.reverted THEN r ELSE MintAll(r.st, Tail(recipients), accepted)

\* ERC721.transferFrom
TransferFrom(st, caller, from, to, tokenId) ==
  IF to = 0 THEN Revert(st)
  ELSE LET r == Update(st, to, tokenId, caller)
       IN IF r.reverted \/ ownerOf(st, tokenId) # from THEN Revert(st) ELSE r

\* The contract right after deployment; last is the last call and how it ended.
Deployed ==
  [st |-> NewStorage,
   last |-> [fn |-> "constructor", tokenId |-> 0, reverted |-> FALSE, before |-> 0, note |-> ""]]

\* The contract after a call of fn about tokenId that ended as r.  History:
\* before is totalSupply() when the call began, note a remark on its arguments.
After(fn, tokenId, r) ==
  [st |-> IF r.reverted THEN sbt.st ELSE r.st,
   last |-> [fn |-> fn, tokenId |-> tokenId, reverted |-> r.reverted,
             before |-> sbt.st.tokenCounter, note |-> ""]]

elsewhereOfContract ==
  <<now, base, enemies, bullets, gameState, lastSpawnTime, spawnInterval, tick, calls,
    game, factory, api, welcome>>

\* totalSupply()
totalSupply == sbt.st.tokenCounter

\* tokensOfOwner(owner)
tokensOfOwner(a) == sbt.st.tokensByOwner[a]

\* mint(to) without the onlyOwner modifier.
MintCall_Ungated(caller, to, accepted) ==
  /\ sbt.st.tokenCounter < MaxTokens
  /\ sbt' = After("mint", 0, MintOne(sbt.st, to, accepted))
  /\ UNCHANGED elsewhereOfContract

\* mint(to) called by caller: onlyOwner, then the body.
MintCall(caller, to, accepted) ==
  /\ sbt.st.tokenCounter < MaxTokens
  /\ sbt' = After("mint", 0,
                  IF caller # sbt.st.owner THEN Revert(sbt.st)
                  ELSE MintOne(sbt.st, to, accepted))
  /\ UNCHANGED elsewhereOfContract

\* mint(to), by any caller to any address.
mint == \E caller \in Callers, to \in Addresses, accepted \in BOOLEAN : MintCall(caller, to, accepted)

\* The arrays batchMint is called with: every array of at most MaxBatch
\* addresses, and one array that is longer than the limit.
Batches ==
  UNION {[1..n -> Addresses] : n \in 0..MaxBatch} \cup {[i \in 1..(BatchLimit + 1) |-> 1]}

\* The array fails one of batchMint's require statements: it is empty, too
\* long, or has address(0) in it.
BadBatch(recipients) ==
  \/ Len(recipients) = 0
  \/ Len(recipients) > BatchLimit
  \/ \E i \in 1..Len(recipients) : recipients[i] = 0

\* batchMint(recipients) called by caller: onlyOwner, between 1 and 100
\* recipients, then the loop.  The note tells whether the array was bad.
BatchMintCall(caller, recipients, accepted) ==
  /\ Len(recipients) > BatchLimit \/ sbt.st.tokenCounter + Len(recipients) <= MaxTokens
  /\ sbt' = [After("batchMint", 0,
                   IF caller # sbt.st.owner \/ Len(recipients) = 0 \/ Len(recipients) > BatchLimit
                   THEN Revert(sbt.st)
                   ELSE MintAll(sbt.st, recipients, accepted))
               EXCEPT !.last.note = IF BadBatch(recipients) THEN "bad array" ELSE "good array"]
  /\ UNCHANGED elsewhereOfContract

\* batchMint(recipients), by any caller with any array.
batchMint ==
  \E caller \in Callers, recipients \in Batches, accepted \in BOOLEAN :
    BatchMintCall(caller, recipients, accepted)

\* setBaseURI(newBaseURI): onlyOwner.
setBaseURI ==
  /\ \E caller \in Callers, uri \in URIs :
       sbt' = After("setBaseURI", 0,
                    IF caller # sbt.st.owner THEN Revert(sbt.st)
                    ELSE Done([sbt.st EXCEPT !.baseTokenURI = uri]))
  /\ UNCHANGED elsewhereOfContract

\* Ownable.transferOwnership(newOwner): onlyOwner, not to address(0).
transferOwnership ==
  /\ \E caller \in Callers, newOwner \in Addresses :
       sbt' = After("transferOwnership", 0,
                    IF caller # sbt.st.owner \/ newOwner = 0 THEN Revert(sbt.st)
                    ELSE Done([sbt.st EXCEPT !.owner = newOwner]))
  /\ UNCHANGED elsewhereOfContract

\* ERC721.transferFrom(from, to, tokenId), of any token id up to MaxTokens.
transferFrom ==
  /\ \E caller \in Callers, from \in Addresses, to \in Addresses, tokenId \in 0..MaxTokens :
       sbt' = After("transferFrom", tokenId, TransferFrom(sbt.st, caller, from, to, tokenId))
  /\ UNCHANGED elsewhereOfContract

\* ERC721.safeTransferFrom(from, to, tokenId): transferFrom, then the
\* receiver's onERC721Received.
safeTransferFrom ==
  /\ \E caller \in Callers, from \in Addresses, to \in Addresses, tokenId \in 0..MaxTokens,
        accepted \in BOOLEAN :
       sbt' = After("safeTransferFrom", tokenId,
                    LET r == TransferFrom(sbt.st, caller, from, to, tokenId)
                    IN IF r.reverted \/ ~accepted THEN Revert(sbt.st) ELSE r)
  /\ UNCHANGED elsewhereOfContract

\* approve(to, tokenId): always reverts.
approve ==
  /\ \E caller \in Callers, to \in Addresses, tokenId \in 0..MaxTokens :
       sbt' = After("approve", tokenId, Revert(sbt.st))
  /\ UNCHANGED elsewhereOfContract

\* setApprovalForAll(operator, approved): always reverts.
setApprovalForAll ==
  /\ \E caller \in Callers, operator \in Addresses, approved \in BOOLEAN :
       sbt' = After("setApprovalForAll", 0, Revert(sbt.st))
  /\ UNCHANGED elsewhereOfContract

NextSBT ==
  \/ mint
  \/ batchMint
  \/ setBaseURI
  \/ transferOwnership
  \/ transferFrom
  \/ safeTransferFrom
  \/ approve
  \/ setApprovalForAll

(***************************************************************************)
(* The Game component (src/unnamed/part_001): the keyboard and touch       *)
(* handlers, the two intervals, the effects that run after a render, the   *)
(* mint button.  A render happens when a piece of React state is set; the  *)
(* engine's own changes cause none.                                        *)
(***************************************************************************)
Keys == {"ArrowUp", "ArrowDown", "ArrowRight"}

\* The period of the ArrowRight interval and the cooldown of the touch
\* button, in ms.
ShootIntervalMs == 1500

SHOOT_COOLDOWN == 1500

\* mintingState as useState initialises it; error "" is null.
IdleMint == [isLoading |-> FALSE, success |-> FALSE, error |-> ""]

\* No interval is running.
Cleared == [armed |-> FALSE, since |-> 0]

\* The component when the game is first shown.  Histories: lastShot is the
\* time of the component's last engine.shoot() (-1: none), endedBy is what
\* ended the game, presses and sent count the presses of the mint button and
\* the requests sent, inFlight the requests without a response, playedMs the
\* time of the current wave during which the engine was neither paused nor
\* over, wavePlayed that time for the wave that ended last.
NewGame ==
  [keys |-> {}, shootInterval |-> Cleared, lastShootTime |-> 0,
   level3Completed |-> FALSE, mintingState |-> IdleMint, walletAddress |-> TRUE,
   inFlight |-> 0, presses |-> 0, sent |-> 0, lastShot |-> -1, endedBy |-> "none",
   playedMs |-> 0, wavePlayed |-> 0, showWelcome |-> FALSE]

\* The component as useState initialises it: the welcome screen is shown and
\* no wallet address is known.
Mounted == [NewGame EXCEPT !.showWelcome = TRUE, !.walletAddress = FALSE]

\* The two effects on level3Completed, run after a render until nothing
\* changes, for the engine state gs.
Level3Effects(g, gs) ==
  IF gs.isGameOver /\ gs.level = 3 /\ ~g.level3Completed
  THEN [g EXCEPT !.level3Completed = TRUE]
  ELSE IF gs.level = 1 /\ g.level3Completed
  THEN [g EXCEPT !.level3Completed = FALSE, !.mintingState = IdleMint]
  ELSE g

\* A handler step that calls nothing on the engine.
Quiet ==
  /\ Counted
  /\ tick' = Idle
  /\ UNCHANGED <<now, base, enemies, bullets, gameState, lastSpawnTime, spawnInterval>>

\* setKeys(ks) and the render it causes: the ArrowRight effect clears the
\* old interval and, if ArrowRight is held and the engine is neither paused
\* nor over, shoots at once and starts a new interval.
KeysRender(ks) ==
  IF "ArrowRight" \in ks /\ ~gameState.isGameOver /\ ~gameState.isPaused
  THEN /\ shoot
       /\ game' = Level3Effects([game EXCEPT !.keys = ks,
                                             !.shootInterval = [armed |-> TRUE, since |-> now],
                                             !.lastShot = now], gameState)
  ELSE /\ Quiet
       /\ game' = Level3Effects([game EXCEPT !.keys = ks, !.shootInterval = Cleared], gameState)

\* handleKeyDown: setKeys(prev => new Set(prev).add(e.key)), a new set even
\* when the key is already held (auto-repeat).
handleKeyDown ==
  /\ \E k \in Keys : KeysRender(game.keys \cup {k})
  /\ UNCHANGED <<factory, api, sbt, welcome>>

\* handleKeyUp: a new set without the key.
handleKeyUp ==
  /\ \E k \in Keys : KeysRender(game.keys \ {k})
  /\ UNCHANGED <<factory, api, sbt, welcome>>

\* The callback of the 16 ms interval: keyboard movement.
movementInterval ==
  /\ IF gameState.isGameOver \/ gameState.isPaused
     THEN Quiet
     ELSE /\ Counted
          /\ base' = LET up == IF "ArrowUp" \in game.keys THEN BaseMoveUp(base) ELSE base
                     IN IF "ArrowDown" \in game.keys THEN BaseMoveDown(up) ELSE up
          /\ tick' = Idle
          /\ UNCHANGED <<now, enemies, bullets, gameState, lastSpawnTime, spawnInterval>>
  /\ UNCHANGED <<game, factory, api, sbt, welcome>>

\* The callback of the ArrowRight interval, ShootIntervalMs after the
\* interval was started or last fired.
shootIntervalCallback ==
  /\ game.shootInterval.armed
  /\ now - game.shootInterval.since >= ShootIntervalMs
  /\ IF ~gameState.isGameOver /\ ~gameState.isPaused
     THEN /\ shoot
          /\ game' = [game EXCEPT !.shootInterval.since = now, !.lastShot = now]
     ELSE /\ Quiet
          /\ game' = [game EXCEPT !.shootInterval.since = now]
  /\ UNCHANGED <<factory, api, sbt, welcome>>

\* handleMoveUp (touch or mouse on the Up button).
handleMoveUp == moveUp /\ UNCHANGED <<game, factory, api, sbt, welcome>>

\* handleMoveDown (touch or mouse on the Down button).
handleMoveDown == moveDown /\ UNCHANGED <<game, factory, api, sbt, welcome>>

\* handleShoot (touch or mouse on the Shoot button).
handleShoot ==
  /\ IF /\ ~gameState.isGameOver
        /\ ~gameState.isPaused
        /\ now - game.lastShootTime >= SHOOT_COOLDOWN
     THEN /\ shoot
          /\ game' = [game EXCEPT !.lastShootTime = now, !.lastShot = now]
     ELSE /\ Quiet
          /\ UNCHANGED game
  /\ UNCHANGED <<factory, api, sbt, welcome>>

\* handleReset: engine.reset(), then the state of the component.
handleReset ==
  /\ reset
  /\ game' = Level3Effects([game EXCEPT !.level3Completed = FALSE,
                                        !.mintingState = IdleMint,
                                        !.keys = {},
                                        !.shootInterval = Cleared,
                                        !.endedBy = "none",
                                        !.playedMs = 0], gameState')
  /\ UNCHANGED <<factory, api, sbt, welcome>>

\* The pause button with a defect the wave-clock claim is tested against:
\* resuming restarts the wave's clock.
handlePauseRender_RestartsWave ==
  /\ Counted
  /\ gameState' = [gameState EXCEPT !.isPaused = ~gameState.isPaused,
                                    !.levelStartTime = IF gameState.isPaused THEN now ELSE @]
  /\ UNCHANGED <<bullets, now, base, enemies, lastSpawnTime, spawnInterval>>
  /\ tick' = Idle
  /\ game' = Level3Effects([game EXCEPT !.shootInterval = Cleared], gameState')
  /\ UNCHANGED <<factory, api, sbt, welcome>>

\* handlePause of the component: the toggle, then setKeys(new Set(prev)) and
\* the render, in which the ArrowRight effect runs again.
handlePauseRender ==
  /\ Counted
  /\ gameState' = [gameState EXCEPT !.isPaused = ~gameState.isPaused]
  /\ IF "ArrowRight" \in game.keys /\ ~gameState.isGameOver /\ gameState.isPaused
     THEN /\ Len(bullets) < MaxBullets
          /\ bullets' = Append(bullets, PlayerBullet(FreshId(bullets), BaseCenter(base)))
          /\ tick' = [Idle EXCEPT !.kind = "shoot"]
          /\ game' = Level3Effects([game EXCEPT !.shootInterval = [armed |-> TRUE, since |-> now],
                                                !.lastShot = now], gameState')
     ELSE /\ UNCHANGED bullets
          /\ tick' = Idle
          /\ game' = Level3Effects([game EXCEPT !.shootInterval = Cleared], gameState')
  /\ UNCHANGED <<now, base, enemies, lastSpawnTime, spawnInterval>>
  /\ UNCHANGED <<factory, api, sbt, welcome>>

\* The mint button is on the page and enabled.
MintButton ==
  /\ gameState.isGameOver
  /\ game.level3Completed /\ gameState.level = 3
  /\ ~game.mintingState.success
  /\ ~game.mintingState.isLoading

\* handleMintSBT up to its fetch: one press of the mint button.
handleMintSBT ==
  /\ MintButton
  /\ Quiet
  /\ game' = IF ~game.walletAddress
             THEN [game EXCEPT !.presses = @ + 1,
                               !.mintingState = [isLoading |-> FALSE, success |-> FALSE,
                                                 error |-> "Wallet address not found"]]
             ELSE [game EXCEPT !.presses = @ + 1, !.sent = @ + 1, !.inFlight = @ + 1,
                               !.mintingState = [isLoading |-> TRUE, success |-> FALSE,
                                                 error |-> ""]]
  /\ UNCHANGED <<factory, api, sbt, welcome>>

\* What the awaited fetch gives: data.success, data.success false with or
\* without data.error, or an exception with or without a message.
FetchOutcomes ==
  {[success |-> TRUE, error |-> ""],
   [success |-> FALSE, error |-> "Transaction failed"],
   [success |-> FALSE, error |-> ""]}

\* handleMintSBT after its fetch, with a failure answered by a second fetch.
mintResponse_Retries ==
  /\ game.inFlight > 0
  /\ Quiet
  /\ \E data \in FetchOutcomes :
       game' = IF data.success
               THEN Level3Effects([game EXCEPT !.inFlight = @ - 1,
                      !.mintingState = [isLoading |-> FALSE, success |-> TRUE, error |-> ""]],
                      gameState)
               ELSE [game EXCEPT !.sent = @ + 1]
  /\ UNCHANGED <<factory, api, sbt, welcome>>

\* handleMintSBT after its fetch: the response or the exception sets
\* mintingState, and the component renders.
mintResponse ==
  /\ game.inFlight > 0
  /\ Quiet
  /\ \E data \in FetchOutcomes :
       game' = Level3Effects([game EXCEPT !.inFlight = @ - 1,
                 !.mintingState =
                    IF data.success
                    THEN [isLoading |-> FALSE, success |-> TRUE, error |-> ""]
                    ELSE [isLoading |-> FALSE, success |-> FALSE,
                          error |-> IF data.error # "" THEN data.error
                                    ELSE "Failed to mint SBT"]],
                 gameState)
  /\ UNCHANGED <<factory, api, sbt, welcome>>

\* One frame of the canvas loop: engine.update().  endedBy records whether
\* the wave timer or the defender's health ended the game; a wave that ends
\* hands its played time to wavePlayed.
frame ==
  /\ update
  /\ game' = [game EXCEPT !.endedBy =
                 IF ~gameState.isGameOver /\ gameState'.isGameOver
                 THEN IF tick'.kind = "transition" THEN "timer" ELSE "health"
                 ELSE @,
               !.wavePlayed = IF tick'.kind = "transition" THEN game.playedMs ELSE @,
               !.playedMs = IF tick'.kind = "transition" THEN 0 ELSE @]
  /\ UNCHANGED <<factory, api, sbt, welcome>>

\* Time passes between two events.
elapse ==
  /\ Clock
  /\ game' = [game EXCEPT !.playedMs = IF EarlyReturn THEN @ ELSE @ + (now' - now)]
  /\ UNCHANGED <<factory, api, sbt, welcome>>

\* The pause button, the reset button, the canvas loop and the clock, from
\* the construction of the engine on.
NextWallClock ==
  \/ handlePauseRender
  \/ handleReset
  \/ frame
  \/ elapse

NextGame ==
  \/ handleKeyDown
  \/ handleKeyUp
  \/ movementInterval
  \/ shootIntervalCallback
  \/ handleMoveUp
  \/ handleMoveDown
  \/ handleShoot
  \/ handleReset
  \/ handlePauseRender
  \/ handleMintSBT
  \/ mintResponse
  \/ frame
  \/ elapse

(***************************************************************************)
(* The WelcomeScreen component (src/unnamed/part_001, from line 446).  An  *)
(* address is "null", the empty string or a proper address; error "" is    *)
(* null.  check is the position of checkExistingConnection, pc the         *)
(* position of connectWallet (the await it is waiting at), account its     *)
(* accounts[0].  attempts counts the presses of the connect button.        *)
(***************************************************************************)
NoWallet == [connected |-> FALSE, address |-> "null", isLoading |-> FALSE, error |-> ""]

NewWelcome ==
  [wallet |-> NoWallet, signedIn |-> FALSE, check |-> "pending", pc |-> "idle",
   account |-> "null", attempts |-> 0]

\* The screen when the Play button has been pressed after an existing
\* connection was found.
SignedIn ==
  [NewWelcome EXCEPT !.wallet = [NoWallet EXCEPT !.connected = TRUE, !.address = "0xA"],
                     !.signedIn = TRUE, !.check = "done"]

\* JavaScript truthiness of an address.
Truthy(a) == a \notin {"null", ""}

\* What the provider answers to eth_accounts and eth_requestAccounts.
AccountLists == {<<>>, <<"">>, <<"0xA">>}

\* What a rejected request of the provider is rejected with.
ProviderErrors ==
  {[code |-> 4001, message |-> "User rejected the request."],
   [code |-> 4902, message |-> "Unrecognized chain ID"],
   [code |-> 0, message |-> ""]}

\* What sdk.actions.signIn() leads to: an address in the result, or nothing
\* usable (no SDK, no signIn, an exception, a result without an address).
FarcasterResults == {"null", "", "0xA"}

elsewhereOfWelcome ==
  <<now, base, enemies, bullets, gameState, lastSpawnTime, spawnInterval, tick, calls,
    factory, api, sbt>>

\* setWallet({connected: true, address, isLoading: false, error: null});
\* setSignedIn(true)
Connected(w, a) ==
  [w EXCEPT !.wallet = [connected |-> TRUE, address |-> a, isLoading |-> FALSE, error |-> ""],
            !.signedIn = TRUE]

\* The catch block of connectWallet.
connectCatch(w, message) ==
  [w EXCEPT !.wallet.isLoading = FALSE,
            !.wallet.error = IF message # "" THEN message ELSE "Failed to connect wallet",
            !.pc = "idle"]

\* checkExistingConnection, started when the screen mounts: its
\* eth_accounts request is answered (no provider and a rejected request
\* leave the state as an empty list does).
checkExistingConnection ==
  /\ game.showWelcome
  /\ welcome.check = "pending"
  /\ \E accounts \in AccountLists :
       welcome' = IF Len(accounts) > 0
                  THEN [Connected(welcome, accounts[1]) EXCEPT !.check = "done"]
                  ELSE [welcome EXCEPT !.check = "done"]
  /\ UNCHANGED game
  /\ UNCHANGED elsewhereOfWelcome

\* A press of the connect button, shown while the wallet is not connected
\* and enabled while it is not loading: connectWallet up to its first await.
connectWallet ==
  /\ game.showWelcome
  /\ ~welcome.wallet.connected
  /\ ~welcome.wallet.isLoading
  /\ welcome.attempts < MaxAttempts
  /\ welcome' = [welcome EXCEPT !.wallet.isLoading = TRUE, !.wallet.error = "",
                                !.pc = "farcaster", !.attempts = @ + 1]
  /\ UNCHANGED game
  /\ UNCHANGED elsewhereOfWelcome

\* The Farcaster attempt is over: with an address the wallet is connected,
\* otherwise the Web3 provider is looked up, and without one the function
\* throws.
farcasterSignIn ==
  /\ game.showWelcome
  /\ welcome.pc = "farcaster"
  /\ \E address \in FarcasterResults, ethereum \in BOOLEAN :
       welcome' = IF Truthy(address)
                  THEN [Connected(welcome, address) EXCEPT !.pc = "idle"]
                  ELSE IF ~ethereum
                  THEN connectCatch(welcome, "Please install MetaMask or another Web3 wallet")
                  ELSE [welcome EXCEPT !.pc = "eth_requestAccounts"]
  /\ UNCHANGED game
  /\ UNCHANGED elsewhereOfWelcome

\* eth_requestAccounts is answered or rejected.
requestAccounts ==
  /\ game.showWelcome
  /\ welcome.pc = "eth_requestAccounts"
  /\ \/ \E accounts \in AccountLists :
          welcome' = IF Len(accounts) > 0
                     THEN [welcome EXCEPT !.pc = "wallet_switchEthereumChain",
                                          !.account = accounts[1]]
                     ELSE [welcome EXCEPT !.pc = "idle"]
     \/ \E e \in ProviderErrors : welcome' = connectCatch(welcome, e.message)
  /\ UNCHANGED game
  /\ UNCHANGED elsewhereOfWelcome

\* wallet_switchEthereumChain is answered or rejected; only code 4902 leads
\* to wallet_addEthereumChain, every other rejection is dropped.
switchChain ==
  /\ game.showWelcome
  /\ welcome.pc = "wallet_switchEthereumChain"
  /\ \/ welcome' = [welcome EXCEPT !.pc = "personal_sign"]
     \/ \E e \in ProviderErrors :
          welcome' = [welcome EXCEPT !.pc = IF e.code = 4902 THEN "wallet_addEthereumChain"
                                            ELSE "personal_sign"]
  /\ UNCHANGED game
  /\ UNCHANGED elsewhereOfWelcome

\* wallet_addEthereumChain is answered or rejected.
addChain ==
  /\ game.showWelcome
  /\ welcome.pc = "wallet_addEthereumChain"
  /\ \/ welcome' = [welcome EXCEPT !.pc = "personal_sign"]
     \/ \E e \in ProviderErrors : welcome' = connectCatch(welcome, e.message)
  /\ UNCHANGED game
  /\ UNCHANGED elsewhereOfWelcome

\* personal_sign is answered, with a signature or without, or rejected.
personalSign ==
  /\ game.showWelcome
  /\ welcome.pc = "personal_sign"
  /\ \/ \E signature \in BOOLEAN :
          welcome' = IF signature
                     THEN [Connected(welcome, welcome.account) EXCEPT !.pc = "idle"]
                     ELSE [welcome EXCEPT !.pc = "idle"]
     \/ \E e \in ProviderErrors : welcome' = connectCatch(welcome, e.message)
  /\ UNCHANGED game
  /\ UNCHANGED elsewhereOfWelcome

\* The Play button with a defect the gating claim is tested against: it is
\* shown as soon as the wallet is connected.
onPlayGame_Ungated ==
  /\ game.showWelcome
  /\ welcome.wallet.connected
  /\ game' = [game EXCEPT !.walletAddress = Truthy(welcome.wallet.address),
                          !.showWelcome = FALSE]
  /\ UNCHANGED welcome
  /\ UNCHANGED elsewhereOfWelcome

\* A press of the Play button, shown when the wallet is connected, signedIn
\* is true and wallet.address is truthy: onPlayGame(wallet.address).
onPlayGame ==
  /\ game.showWelcome
  /\ welcome.wallet.connected
  /\ welcome.signedIn /\ Truthy(welcome.wallet.address)
  /\ game' = [game EXCEPT !.walletAddress = Truthy(welcome.wallet.address),
                          !.showWelcome = FALSE]
  /\ UNCHANGED welcome
  /\ UNCHANGED elsewhereOfWelcome

\* What the provider and the SDK do on their own.
Answer ==
  \/ checkExistingConnection
  \/ farcasterSignIn
  \/ requestAccounts
  \/ switchChain
  \/ addChain
  \/ personalSign

NextWelcome ==
  \/ connectWallet
  \/ onPlayGame
  \/ checkExistingConnection
  \/ farcasterSignIn
  \/ requestAccounts
  \/ switchChain
  \/ addChain
  \/ personalSign

\* The page as it mounts: the engine constructed, the welcome screen shown.
InitWelcome ==
  /\ Init
  /\ game = Mounted
  /\ welcome = NewWelcome
  /\ factory = NoCall
  /\ api = NoRequest
  /\ sbt = Deployed

\* The engine when update() has just taken it into wave 3: two waves played
\* without a loss of health, the spawn timer restarted by nextLevel().
ThirdWaveStart ==
  /\ now = StartTime + levelDurations[1] + levelDurations[2]
  /\ base = NewBase
  /\ enemies = <<>>
  /\ bullets = <<>>
  /\ gameState = [NewGameState(NewBase, now) EXCEPT !.level = 3,
                                                    !.levelDuration = levelDurations[3]]
  /\ lastSpawnTime = now
  /\ spawnInterval = 2000

\* The game observed from the start of wave 3 on.
InitGame ==
  /\ ThirdWaveStart
  /\ tick = Idle
  /\ calls = 0
  /\ game = NewGame
  /\ factory = NoCall
  /\ api = NoRequest
  /\ sbt = Deployed
  /\ welcome = SignedIn

(***************************************************************************)
(* The specifications.                                                     *)
(***************************************************************************)
\* The components other than the engine before anything has happened to them.
AtRest ==
  /\ game = NewGame
  /\ factory = NoCall
  /\ api = NoRequest
  /\ sbt = Deployed
  /\ welcome = SignedIn

\* Everything as it is constructed.
Start == Init /\ AtRest

\* The engine alone: its operations in any order, the clock in between.
Next ==
  \/ update /\ UNCHANGED <<game, factory, api, sbt, welcome>>
  \/ nextLevel /\ UNCHANGED <<game, factory, api, sbt, welcome>>
  \/ shoot /\ UNCHANGED <<game, factory, api, sbt, welcome>>
  \/ moveUp /\ UNCHANGED <<game, factory, api, sbt, welcome>>
  \/ moveDown /\ UNCHANGED <<game, factory, api, sbt, welcome>>
  \/ handlePause /\ UNCHANGED <<game, factory, api, sbt, welcome>>
  \/ reset /\ UNCHANGED <<game, factory, api, sbt, welcome>>
  \/ Clock /\ UNCHANGED <<game, factory, api, sbt, welcome>>

Spec == Start /\ [][Next]_vars

\* The factory alone.
SpecFactory == Start /\ [][NextFactory]_vars

\* The Game component with the engine it drives.
SpecGame == InitGame /\ [][NextGame]_vars

\* The wave clock: the engine under the canvas loop and the pause and reset
\* buttons alone.
SpecWallClock == Start /\ [][NextWallClock]_vars

\* The welcome screen from the mount of the page on; in the second
\* specification every request to the provider and the SDK is answered.
SpecWelcome == InitWelcome /\ [][NextWelcome]_vars

SpecWelcomeFair == InitWelcome /\ [][NextWelcome]_vars /\ WF_vars(Answer)

\* The token contract alone.
SpecSBT == Start /\ [][NextSBT]_vars

\* The mint endpoint alone.
SpecMint == Start /\ [][NextMint]_vars

\* The engine right after reset() and shoot() at time StartTime: the spawn
\* timer has just been reset and one projectile of the defender is in flight.
FlightStart ==
  /\ now = StartTime
  /\ base = NewBase
  /\ enemies = <<>>
  /\ bullets = <<PlayerBullet(1, BaseCenter(NewBase))>>
  /\ gameState = NewGameState(NewBase, StartTime)
  /\ lastSpawnTime = StartTime
  /\ spawnInterval = 2000

\* The runs observed from that state on.
InitFlight ==
  /\ FlightStart
  /\ tick = Idle
  /\ calls = 0
  /\ AtRest

SpecFlight == InitFlight /\ [][Next]_vars

(***************************************************************************)
(* The claims.                                                             *)
(***************************************************************************)
Playing == ~gameState.isPaused /\ ~gameState.isGameOver

\* The wave durations as the specification states them.
StatedDuration(l) == CASE l = 1 -> 30000 [] l = 2 -> 60000 [] l = 3 -> 40000

\* C1: an update() called while the engine is paused or the game is over
\* changes nothing: the defender, both collections, every GameState field,
\* lastSpawnTime and spawnInterval are the same before and after the call.
C1_PausedUpdateChangesNothing ==
  [][(update /\ (gameState.isPaused \/ gameState.isGameOver))
       => UNCHANGED <<base, enemies, bullets, gameState, lastSpawnTime, spawnInterval>>]_vars

\* C1 witness: a paused update() has returned with an adversary alive, at a
\* time when the wave duration had already elapsed.
C1_Witness ==
  /\ tick.kind = "noop"
  /\ gameState.isPaused /\ ~gameState.isGameOver
  /\ Len(enemies) > 0
  /\ now - gameState.levelStartTime >= gameState.levelDuration

\* C2: an update() in state Playing before the wave duration has elapsed keeps
\* the wave index; one at or after it makes exactly one transition: the wave
\* index goes from w to w+1 for w < 3, the game is over with the wave still 3
\* for w = 3, and in the state it leaves either the game is over or the new
\* wave has not elapsed, so that an update() at the same instant makes no
\* second transition.
C2_WaveBoundary ==
  [][(update /\ Playing) =>
       /\ (now - gameState.levelStartTime < gameState.levelDuration
             => gameState'.level = gameState.level)
       /\ (now - gameState.levelStartTime >= gameState.levelDuration =>
             /\ gameState.level < 3 =>
                  gameState'.level = gameState.level + 1 /\ ~gameState'.isGameOver
             /\ gameState.level = 3 => gameState'.level = 3 /\ gameState'.isGameOver
             /\ \/ gameState'.isGameOver
                \/ now' - gameState'.levelStartTime < gameState'.levelDuration)]_vars

\* C2 witness: the update() at the end of wave 3 has ended the game.
C2_Witness ==
  tick.kind = "transition" /\ gameState.level = 3 /\ gameState.isGameOver

\* C3: the update() that leaves wave w < 3 sets the wave to w+1, empties both
\* collections, resets levelStartTime and lastSpawnTime to the current time,
\* loads the duration of wave w+1 and does nothing else: no adversary is
\* spawned, the defender, the score, the health mirror and the spawn interval
\* are unchanged.
C3_WaveTransition ==
  [][(update /\ Playing /\ gameState.level < 3
        /\ now - gameState.levelStartTime >= gameState.levelDuration) =>
       /\ gameState'.level = gameState.level + 1
       /\ enemies' = <<>> /\ bullets' = <<>>
       /\ gameState'.levelStartTime = now /\ lastSpawnTime' = now
       /\ gameState'.levelDuration = StatedDuration(gameState.level + 1)
       /\ gameState'.score = gameState.score
       /\ gameState'.playerHealth = gameState.playerHealth
       /\ gameState'.isPaused = gameState.isPaused
       /\ base' = base /\ spawnInterval' = spawnInterval]_vars

\* C3 witness: wave 2 has just begun with a score and a damaged defender
\* carried over from wave 1.
C3_Witness ==
  /\ tick.kind = "transition" /\ gameState.level = 2
  /\ gameState.score > 0 /\ base.health < BaseMaxHealth
  /\ enemies = <<>> /\ bullets = <<>>

\* C4: in every reachable state the wave index is 1, 2 or 3 and levelDuration
\* is the configured duration of that wave.
C4_LevelInRange ==
  /\ gameState.level \in {1, 2, 3}
  /\ gameState.levelDuration = StatedDuration(gameState.level)

\* C4 witness: nextLevel() has been called at wave 3 and the wave is still 3.
C4_Witness ==
  gameState.level = 3 /\ gameState.isGameOver /\ tick.kind = "none"

\* C5: once the game is over, no update(), nextLevel(), shoot(), move or pause
\* toggle clears isGameOver or changes the wave index or the score.
C5_GameOverTerminal ==
  [][(gameState.isGameOver
        /\ (update \/ nextLevel \/ shoot \/ moveUp \/ moveDown \/ handlePause)) =>
       /\ gameState'.isGameOver
       /\ gameState'.level = gameState.level
       /\ gameState'.score = gameState.score]_vars

\* The adversary of the collection s with identity id.
ById(s, id) == s[CHOOSE i \in 1..Len(s) : s[i].id = id]

\* C6: in an update() where adversaries that cannot shoot overlap the defender,
\* the defender's health decreases by exactly 5 for each of them and none of
\* them is in the enemies collection when the update() returns.
C6_MeleeStrikeRemovesAdversary ==
  [][(update /\ tick'.kind = "full") =>
       /\ \A id \in tick'.melee : id \notin Ids(enemies')
       /\ tick'.melee # {} => base'.health = base.health - 5 * Cardinality(tick'.melee)]_vars

\* C7: over its whole lifetime an adversary inflicts the melee hit on the
\* defender at most once.
C7_MeleeStrikeOnce ==
  \A i \in 1..Len(enemies) : enemies[i].strikes <= 1

\* C8: when an update() past both early returns has returned, an adversary live
\* at its start is still in the enemies collection only with health > 0 and
\* inside the play bounds, and is absent only if it left the play bounds or was
\* removed for its health by a projectile hit; so no adversary with health <= 0
\* remains in the collection.
C8_RemovedIffDeadOrOut ==
  [][(update /\ tick'.kind = "full") =>
       \A i \in 1..Len(enemies) :
         IF enemies[i].id \in Ids(enemies')
         THEN /\ ById(enemies', enemies[i].id).health > 0
              /\ ~EnemyIsOffScreen(ById(enemies', enemies[i].id))
         ELSE \/ EnemyIsOffScreen(EnemyUpdate(enemies[i]))
              \/ \E h \in Range(tick'.hits) : h[2] = enemies[i].id]_vars

\* C9: within one update() each projectile of the defender damages at most one
\* adversary.
C9_OneAdversaryPerProjectile ==
  \A i, j \in 1..Len(tick.hits) : i # j => tick.hits[i][1] # tick.hits[j][1]

\* The projectile b, at the position the collision passes of an update() see
\* it, overlaps what it is tested against: an adversary of the call for a
\* projectile of the defender, the defender for one of an adversary.
Collides(b) ==
  IF b.isPlayerBullet
  THEN \/ \E i \in 1..Len(enemies) : bulletEnemyCollision(b, EnemyUpdate(enemies[i]))
       \/ \E i \in 1..Len(enemies') : bulletEnemyCollision(b, enemies'[i])
  ELSE bulletBaseCollision(b, base)

\* C10: update() removes a projectile only if it has left the expanded play
\* bounds or has itself matched a collision; a projectile that is inside the
\* bounds and collided with nothing is never removed.
C10_UnhitProjectileStays ==
  [][(update /\ tick'.kind = "full") =>
       \A i \in 1..Len(bullets) :
         bullets[i].id \notin Ids(bullets') =>
           \/ ~InExpandedBounds(MoveBullet(bullets[i]))
           \/ bullets[i].id \in tick'.matched
           \/ Collides(MoveBullet(bullets[i]))]_vars

\* C11: an update() past both early returns raises the score by exactly 10
\* times the wave for each adversary that a projectile of the defender took
\* from health > 0 to health <= 0 in that call, each such adversary counting
\* once; every other call but reset() (a wave transition included), and every
\* adversary that is removed for leaving the play bounds, leaves the score as
\* it is.
C11_ScoreAccounting ==
  [][/\ (update /\ tick'.kind = "full") =>
          gameState'.score = gameState.score + 10 * gameState.level * Cardinality(tick'.felled)
     /\ (tick'.kind # "full" /\ ~reset) => gameState'.score = gameState.score]_vars

\* C12: update(), shoot(), the moves and the pause toggle (and nextLevel() and
\* the passing of time) never lower the score; reset() sets it to 0.
C12_ScoreMonotone ==
  [][/\ (update \/ shoot \/ moveUp \/ moveDown \/ handlePause \/ nextLevel \/ Clock)
          => gameState'.score >= gameState.score
     /\ reset => gameState'.score = 0]_vars

\* C12 witness: a score earned by a projectile kill has come through a later
\* update() that scored nothing.
C12_Witness ==
  tick.kind = "full" /\ tick.hits = <<>> /\ gameState.score > 0

\* C13: in an update() past both early returns, every projectile of an
\* adversary that overlaps the defender when the adversary-projectile pass
\* begins is removed from the bullets collection, the defender's health goes
\* down by the damage of each of them (not below 0), and the game is over when
\* the update() returns if that leaves the health at 0.
C13_AdversaryProjectileResolved ==
  [][(update /\ tick'.kind = "full" /\ tick'.threat # {}) =>
       /\ \A id \in tick'.threat : id \notin Ids(bullets')
       /\ base'.health = Max(0, base.health - 5 * Cardinality(tick'.melee)
                                   - EnemyBulletDamage * Cardinality(tick'.threat))
       /\ base'.health <= 0 => gameState'.isGameOver]_vars

\* C14: an update() in state Playing that makes no wave transition adds exactly
\* one adversary when now - lastSpawnTime >= spawnInterval and none otherwise;
\* the adversary added is of an archetype of the current wave and
\* lastSpawnTime becomes the current time.  No call ever sets lastSpawnTime
\* back, so two spawns are at least the spawn interval in force apart.
C14_SpawnStep ==
  [][/\ (update /\ Playing /\ now - gameState.levelStartTime < gameState.levelDuration) =>
          IF now - lastSpawnTime >= spawnInterval
          THEN /\ Len(tick'.spawn) = 1
               /\ tick'.spawn[1] \in Range(getEnemyTypesForLevel(gameState.level))
               /\ ConfigOf(tick'.spawn[1]).level = gameState.level
               /\ lastSpawnTime' = now
          ELSE /\ tick'.spawn = <<>>
               /\ lastSpawnTime' = lastSpawnTime
     /\ lastSpawnTime' >= lastSpawnTime
     /\ lastSpawnTime' <= now']_vars

\* C14 witness: the second adversary of wave 2 has been spawned, one spawn
\* interval or more after the first.
C14_Witness ==
  /\ tick.kind = "full" /\ Len(tick.spawn) = 1
  /\ gameState.level = 2 /\ Len(enemies) = 2
  /\ lastSpawnTime = now

\* C15: after every spawn performed in wave w the spawn interval is
\* max(800, 2000 - (w-1)*200), that is 2000, 1800 and 1600 ms for the waves
\* 1, 2 and 3, whatever it was before and however many spawns came before.
C15_SpawnInterval ==
  [][(update /\ tick'.kind = "full" /\ tick'.spawn # <<>>) =>
       /\ spawnInterval' = Max(800, 2000 - (gameState.level - 1) * 200)
       /\ spawnInterval' = CASE gameState.level = 1 -> 2000
                              [] gameState.level = 2 -> 1800
                              [] gameState.level = 3 -> 1600]_vars

\* C15 witness: the second spawn of wave 3 has left the interval at 1600 ms.
C15_Witness ==
  /\ tick.kind = "full" /\ tick.spawn # <<>>
  /\ gameState.level = 3 /\ Len(enemies) = 2 /\ spawnInterval = 1600

\* The number of update() calls a projectile fired from the defender's center
\* at 8 units per call needs to reach the expanded bound:
\* ceil((canvasWidth + 50 - startX) / 8).
FlightBound == (canvasWidth + 50 - BaseCenter(base).x + 7) \div 8

C17_ProjectileLeaves ==
  \A i \in 1..Len(bullets) : bullets[i].isPlayerBullet => bullets[i].age < FlightBound

\* C17 witness: a projectile of the defender that met no adversary has been
\* removed by the off-screen filter, in the last update() the bound allows it.
C17_Witness ==
  /\ tick.kind = "full" /\ tick.hits = <<>>
  /\ \E c \in tick.culled : c[2] /\ c[3] = FlightBound

\* C18: in every state between two calls (after the constructor and after
\* every update(), reset(), shoot(), move, pause toggle or nextLevel())
\* gameState.playerHealth is the defender's health and
\* gameState.maxPlayerHealth is the defender's maxHealth.
C18_HealthMirror ==
  /\ gameState.playerHealth = base.health
  /\ gameState.maxPlayerHealth = BaseMaxHealth

\* C18 witness: an update() in which a projectile of an adversary and a melee
\* strike or an earlier hit have lowered the defender's health has returned.
C18_Witness ==
  /\ tick.kind = "full" /\ tick.threat # {}
  /\ base.health < BaseMaxHealth - EnemyBulletDamage
  /\ gameState.playerHealth = base.health

\* C19: in every reachable state the defender's health is between 0 and its
\* maxHealth, whatever melee strikes and projectile hits it has taken.
C19_HealthInRange ==
  0 <= base.health /\ base.health <= BaseMaxHealth

\* C19 witness: melee strikes have taken the defender's health to 0 and the
\* adversary goes on striking.
C19_Witness ==
  /\ tick.kind = "full" /\ tick.melee # {}
  /\ base.health = 0 /\ ~gameState.isGameOver

\* C20: shoot(), in any engine state (paused and game over included) and
\* however soon after the previous shot, appends exactly one projectile to the
\* bullets collection: owned by the defender, at the defender's center, with
\* velocity (8, 0) and damage 20; the projectiles already there, the
\* adversaries, the defender, every GameState field, lastSpawnTime and
\* spawnInterval are unchanged.
C20_ShootAppendsOne ==
  [][shoot =>
       /\ Len(bullets') = Len(bullets) + 1
       /\ SubSeq(bullets', 1, Len(bullets)) = bullets
       /\ bullets'[Len(bullets')].isPlayerBullet
       /\ bullets'[Len(bullets')].x = BaseX + BaseWidth \div 2
       /\ bullets'[Len(bullets')].y = base.y + BaseHeight \div 2
       /\ bullets'[Len(bullets')].vx = 8 /\ bullets'[Len(bullets')].vy = 0
       /\ bullets'[Len(bullets')].damage = 20
       /\ UNCHANGED <<base, enemies, gameState, lastSpawnTime, spawnInterval>>]_vars

\* C20 witness: with the engine paused and the game over, shoot() has been
\* called twice with no time and no update() in between.
C20_Witness ==
  /\ tick.kind = "shoot"
  /\ gameState.isPaused /\ gameState.isGameOver
  /\ Len(bullets) = 2 /\ bullets[1] = [bullets[2] EXCEPT !.id = bullets[1].id]

\* C21: reset(), from any state, leaves a defender at full health at its
\* starting position, no adversary and no projectile, score 0, wave 1, the
\* game not over and not paused, the duration of wave 1 (30000 ms) and
\* levelStartTime equal to the time of the call.
C21_ResetYieldsInitial ==
  [][reset =>
       /\ base'.health = BaseMaxHealth
       /\ base'.y = (canvasHeight - BaseHeight) \div 2
       /\ enemies' = <<>> /\ bullets' = <<>>
       /\ gameState'.score = 0 /\ gameState'.level = 1
       /\ ~gameState'.isGameOver /\ ~gameState'.isPaused
       /\ gameState'.playerHealth = BaseMaxHealth
       /\ gameState'.maxPlayerHealth = BaseMaxHealth
       /\ gameState'.levelDuration = 30000
       /\ gameState'.levelStartTime = now]_vars

\* C21 witness: reset() has been called after a spawn of wave 3 (the spawn
\* interval of wave 3 is still in force) at a later time than the construction.
C21_Witness ==
  /\ tick.kind = "reset"
  /\ spawnInterval = 1600 /\ now > StartTime
  /\ gameState.level = 1 /\ gameState.levelStartTime = now

\* The wave of the game each archetype is listed under (types.ts, EnemyType).
WaveOf(t) ==
  CASE t \in {"starkent", "scroll", "zksyn", "taiko"} -> 1
    [] t \in {"linea", "op"} -> 2
    [] t \in {"arb", "polygon"} -> 3

\* C25: the factory's absence semantics.  getEnemyTypesForLevel returns the
\* empty list and createRandomEnemy returns null for every level outside
\* {1,2,3}; createEnemy(type, level) returns null when the archetype does not
\* belong to the level and an adversary of that archetype otherwise.  That no
\* call throws is the absence of an evaluation error in every call.
C25_FactoryAbsence ==
  /\ factory.op = "getEnemyTypesForLevel" =>
       IF factory.level \in {1, 2, 3}
       THEN /\ factory.result # <<>>
            /\ \A i \in 1..Len(factory.result) : WaveOf(factory.result[i]) = factory.level
       ELSE factory.result = <<>>
  /\ factory.op = "createRandomEnemy" =>
       IF factory.level \in {1, 2, 3}
       THEN factory.result # Null /\ WaveOf(factory.result.type) = factory.level
       ELSE factory.result = Null
  /\ factory.op = "createEnemy" =>
       IF factory.level \in {1, 2, 3} /\ WaveOf(factory.type) = factory.level
       THEN factory.result # Null /\ factory.result.type = factory.type
       ELSE factory.result = Null

\* createEnemy was asked for an archetype of another wave of the game and
\* returned null.
C25_Witness ==
  /\ factory.op = "createEnemy"
  /\ factory.level \in {1, 2, 3}
  /\ WaveOf(factory.type) # factory.level
  /\ factory.result = Null

\* The archetypes of the table listed under a wave.
Listed(l) == DOMAIN enemyConfigs[l]

\* C26: the archetype table.  The eight archetypes are partitioned over the
\* three waves (4 / 2 / 2); each configuration's level is the wave it is
\* listed under; no wave-1 archetype can shoot; every wave-2 and wave-3
\* archetype can shoot at a positive interval; health and size increase and
\* speed decreases from wave 2 to wave 3.
C26_ArchetypeTable ==
  /\ DOMAIN enemyConfigs = {1, 2, 3}
  /\ Cardinality(Listed(1)) = 4 /\ Cardinality(Listed(2)) = 2 /\ Cardinality(Listed(3)) = 2
  /\ Listed(1) \cup Listed(2) \cup Listed(3) = EnemyTypes
  /\ Cardinality(EnemyTypes) = 8
  /\ \A l \in 1..3 : \A t \in Listed(l) :
       /\ enemyConfigs[l][t].level = l
       /\ enemyConfigs[l][t].type = t
       /\ WaveOf(t) = l
  /\ \A t \in Listed(1) : ~enemyConfigs[1][t].canShoot
  /\ \A l \in {2, 3} : \A t \in Listed(l) :
       enemyConfigs[l][t].canShoot /\ enemyConfigs[l][t].shootInterval > 0
  /\ \A t2 \in Listed(2), t3 \in Listed(3) :
       /\ enemyConfigs[3][t3].health > enemyConfigs[2][t2].health
       /\ enemyConfigs[3][t3].width > enemyConfigs[2][t2].width
       /\ enemyConfigs[3][t3].height > enemyConfigs[2][t2].height
       /\ enemyConfigs[3][t3].speed2 < enemyConfigs[2][t2].speed2
  /\ factory.op = "createEnemy" /\ factory.result # Null =>
       factory.result.health = enemyConfigs[factory.level][factory.type].health

\* The factory built a wave-3 adversary, which carries the health of the table.
C26_Witness ==
  /\ factory.op = "createEnemy"
  /\ factory.level = 3
  /\ factory.result # Null
  /\ factory.result.health = 100

\* The request carries an address (a non-empty value under the key address).
AddressPresent == api.body \in {"malformed", "valid"}

\* The first check of the claim's list the request fails, 0 if it passes all.
FirstFailedCheck ==
  IF api.method # "POST" THEN 1
  ELSE IF ~AddressPresent THEN 2
  ELSE IF api.body # "valid" THEN 3
  ELSE IF ~api.cfg.contractAddress \/ ~api.cfg.abi THEN 4
  ELSE IF ~api.cfg.privateKey THEN 5
  ELSE 0

\* The status the claim gives to the failure of each check.
StatedStatus == <<405, 400, 400, 500, 500>>

\* C27: the endpoint calls contract.mint(address) only after every check has
\* passed, in order: method POST (else 405), address present (else 400),
\* address well-formed (else 400), contract address and ABI configured
\* (else 500), minter key set (else 500); a failed check means no mint call.
C27_ChecksBeforeMint ==
  api.method # "" =>
    IF FirstFailedCheck = 0
    THEN api.res.minted = 1
    ELSE api.res.minted = 0 /\ api.res.status = StatedStatus[FirstFailedCheck]

\* The part of C27 about the mint call alone: contract.mint is called exactly
\* for the requests that pass every check.
MintOnlyAfterChecks == api.method # "" => (api.res.minted = 1 <=> FirstFailedCheck = 0)

\* C28: every response is {success: true, txHash} with status 200, given only
\* for a receipt of status 1, or {success: false, error} with a 4xx or 5xx
\* status; every error thrown while handling is turned into the latter.
C28_ResponseShape ==
  api.method # "" =>
    /\ \/ /\ api.res.success
          /\ api.res.status = 200 /\ api.res.txHash # ""
          /\ api.res.minted = 1
          /\ ~api.mintOutcome.throws
          /\ ~api.waitOutcome.throws /\ api.waitOutcome.status = 1
       \/ /\ ~api.res.success
          /\ api.res.status \in 400..599 /\ api.res.error # ""
    /\ (api.res.minted = 1 /\ (api.mintOutcome.throws \/ api.waitOutcome.throws)) =>
         ~api.res.success /\ api.res.status \in 400..599 /\ api.res.error # ""

\* A valid request whose transaction was sent and whose wait threw got a
\* failure response.
C28_Witness ==
  /\ FirstFailedCheck = 0
  /\ api.method = "POST"
  /\ ~api.mintOutcome.throws /\ api.waitOutcome.throws
  /\ ~api.res.success /\ api.res.status = 500 /\ api.res.error = "execution reverted"

\* The token is in existence (it has an owner).
Minted(id) == sbt.st.owners[id] # 0

\* C30: the token is soulbound.  The owner of a minted token never changes,
\* whatever is called; every transfer of a minted token reverts; approve and
\* setApprovalForAll revert for every caller and argument; a reverted call
\* leaves the contract's storage as it was.
C30_Soulbound ==
  [][/\ \A id \in TokenIds : Minted(id) => sbt'.st.owners[id] = sbt.st.owners[id]
     /\ sbt'.last.fn \in {"transferFrom", "safeTransferFrom"}
           /\ sbt'.last.tokenId \in TokenIds /\ Minted(sbt'.last.tokenId)
          => sbt'.last.reverted /\ sbt'.st = sbt.st
     /\ sbt'.last.fn \in {"approve", "setApprovalForAll"}
          => sbt'.last.reverted /\ sbt'.st = sbt.st]_vars

\* The holder of a minted token tried to transfer it and the call reverted.
C30_Witness ==
  /\ sbt.last.fn \in {"transferFrom", "safeTransferFrom"}
  /\ sbt.last.tokenId \in TokenIds
  /\ Minted(sbt.last.tokenId)
  /\ sbt.last.reverted
  /\ \E id \in TokenIds : Minted(id) /\ sbt.st.owners[id] # sbt.st.owner

\* A step of a keyboard or touch/mouse handler of fire or movement, or of one
\* of the two intervals the keyboard handlers feed.
InputStep ==
  \/ handleKeyDown
  \/ handleKeyUp
  \/ movementInterval
  \/ shootIntervalCallback
  \/ handleMoveUp
  \/ handleMoveDown
  \/ handleShoot

\* C22: the input source fires and moves only while the engine is Playing.
\* No keyboard or touch/mouse handler changes the defender's position or
\* adds a projectile while isPaused or isGameOver is true.
C22_InputOnlyWhilePlaying ==
  [][(gameState.isPaused \/ gameState.isGameOver) /\ InputStep
       => base'.y = base.y /\ bullets' = bullets]_vars

\* C23: the input source rate-limits fire.  Any two consecutive
\* engine.shoot() calls of the Game component are at least 350 ms apart.
C23_FireRateLimited ==
  [][tick'.kind = "shoot" /\ game.lastShot # -1 => now' - game.lastShot >= 350]_vars

\* C24: level-3 completion is recorded only when the game is over at level 3
\* because the level-3 duration has elapsed; a game ended in wave 3 by the
\* defender's health reaching 0 does not set level3Completed.
C24_CompletionOnlyTimed ==
  game.level3Completed =>
    gameState.isGameOver /\ gameState.level = 3 /\ game.endedBy = "timer"

\* C29: a mint failure is display-only.  A press of the mint button sends at
\* most one request, no other step sends one (a failed request is not sent
\* again), and neither the press nor the outcome of the request changes the
\* engine's entities, score, wave or flags.
C29_MintDisplayOnly ==
  [][/\ game'.sent <= game'.presses
     /\ game'.sent # game.sent =>
          handleMintSBT /\ game'.sent = game.sent + 1 /\ game'.presses = game.presses + 1
     /\ handleMintSBT \/ mintResponse =>
          UNCHANGED <<base, enemies, bullets, gameState, lastSpawnTime, spawnInterval>>]_vars

\* The one request of one press has failed and the failure is on display,
\* with the game still over at wave 3.
C29_Witness ==
  /\ game.presses = 1 /\ game.sent = 1 /\ game.inFlight = 0
  /\ ~game.mintingState.isLoading /\ ~game.mintingState.success
  /\ game.mintingState.error = "Transaction failed"
  /\ gameState.isGameOver /\ gameState.level = 3

\* C31: mint is owner-gated and issues exactly one token per call.  mint(to)
\* by a non-owner or with to = address(0) reverts with the state unchanged; a
\* mint(to) that goes through gives the token whose id is the previous
\* totalSupply to `to` and raises totalSupply by exactly 1, so that the ids in
\* existence are 0, 1, 2, ... below totalSupply, none reused.
C31_MintOwnerGatedOnePerCall ==
  [][\A caller \in Callers, to \in Addresses, accepted \in BOOLEAN :
       sbt'.last.fn = "mint" /\ MintCall(caller, to, accepted) =>
         /\ (caller # sbt.st.owner \/ to = 0) => sbt'.last.reverted
         /\ sbt'.last.reverted => sbt'.st = sbt.st
         /\ ~sbt'.last.reverted =>
              /\ sbt'.st.tokenCounter = totalSupply + 1
              /\ sbt'.st.owners[totalSupply] = to
              /\ \A id \in TokenIds \ {totalSupply} : sbt'.st.owners[id] = sbt.st.owners[id]
         /\ \A id \in TokenIds : sbt'.st.owners[id] # 0 <=> id < sbt'.st.tokenCounter]_vars

\* The owner has minted twice and the second token, id 1, went to the other
\* account.
C31_Witness ==
  /\ sbt.last.fn = "mint" /\ ~sbt.last.reverted
  /\ totalSupply = 2
  /\ sbt.st.owners[0] # 0 /\ sbt.st.owners[1] # 0
  /\ sbt.st.owners[1] # sbt.st.owner

RECURSIVE SumOfLengths(_)
\* The sum of the lengths of tokensOfOwner over the addresses of S.
SumOfLengths(S) ==
  IF S = {} THEN 0
  ELSE LET a == CHOOSE x \in S : TRUE
       IN Len(tokensOfOwner(a)) + SumOfLengths(S \ {a})

\* tokensOfOwner(a) lists exactly the ids whose owner is a, each once, for
\* every address a, and the lists together have totalSupply entries.
ListsExact ==
  /\ \A a \in Callers :
       /\ Range(tokensOfOwner(a)) = {id \in TokenIds : sbt.st.owners[id] = a}
       /\ \A i, j \in 1..Len(tokensOfOwner(a)) :
            i # j => tokensOfOwner(a)[i] # tokensOfOwner(a)[j]
  /\ tokensOfOwner(0) = <<>>
  /\ SumOfLengths(Addresses) = totalSupply

\* C38: after any sequence of mint and batchMint calls tokensOfOwner(a) lists
\* exactly the ids whose owner is a, each once, and the lengths of the lists
\* sum to totalSupply; a batchMint that reverts (empty array, more than 100
\* recipients, a zero address) mints no token at all.
C38_TokenListsAndAtomicBatch ==
  /\ ListsExact
  /\ sbt.last.fn = "batchMint" =>
       /\ sbt.last.note = "bad array" => sbt.last.reverted
       /\ sbt.last.reverted => totalSupply = sbt.last.before

\* After a token was minted, a batchMint whose second recipient is address(0)
\* has reverted: the token its first round would have minted does not exist.
C38_Witness ==
  /\ sbt.last.fn = "batchMint" /\ sbt.last.reverted /\ sbt.last.note = "bad array"
  /\ totalSupply = 1
  /\ sbt.st.owners[1] = 0
  /\ Len(tokensOfOwner(2)) = 1

\* C32: after any update() that returns with the defender's health equal to
\* 0, gameState.isGameOver is true, in every wave, wave 1 with its melee
\* damage included.
C32_DeadMeansGameOver ==
  tick.kind \in {"noop", "transition", "full"} /\ base.health = 0 => gameState.isGameOver

\* The fields of an engine constructed at time t, in the order of engineVars:
\* the field initialisers and the constructor.
FreshEngine(t) == <<NewBase, <<>>, <<>>, NewGameState(NewBase, t), 0, 2000>>

\* C33: reset() is equivalent to fresh construction.  The engine is
\* deterministic in its fields, the clock and the draws, so an engine that
\* was reset behaves like a new one under the same later operations and
\* timestamps exactly if reset() leaves every field, the spawn timer
\* (lastSpawnTime) and spawnInterval included, as the constructor would at
\* that time.
C33_ResetIsConstruction ==
  [][tick'.kind = "reset" => engineVars' = FreshEngine(now')]_vars

\* The difference in behaviour: the first update() of a new engine spawns an
\* adversary; so does the first update() after a reset(), with no time passed.
SpawnsRightAfterReset ==
  [][tick.kind = "reset" /\ tick'.kind = "full" /\ now' = gameState.levelStartTime
       => tick'.spawn # <<>>]_vars

\* C34: the wave clock is the wall-clock time since levelStartTime and does
\* not stop while the engine is paused or update() is not called.  An
\* update() of a running engine at which now - levelStartTime has reached
\* levelDuration performs the wave transition, however little of that time
\* was spent Playing; the pause toggle leaves levelStartTime and
\* lastSpawnTime as they are.
C34_WallClockWave ==
  [][/\ (frame /\ ~EarlyReturn
          /\ now - gameState.levelStartTime >= gameState.levelDuration)
          => tick'.kind = "transition"
     /\ handlePauseRender
          => /\ gameState'.levelStartTime = gameState.levelStartTime
             /\ lastSpawnTime' = lastSpawnTime]_vars

\* Wave 1 has ended by the clock although the engine was Playing for less
\* than the wave's duration: it was paused for part of the 30 s.
C34_Witness ==
  /\ tick.kind = "transition"
  /\ gameState.level = 2
  /\ game.wavePlayed > 0
  /\ game.wavePlayed < levelDurations[1]

\* C35: after handleReset the minting state is at its initial value and
\* stays there until the mint button is pressed again, whatever happens to
\* a mint request that was in flight at the reset: handleReset leaves the
\* initial value, and the initial value is left only by a press.
C35_MintStateQuietAfterReset ==
  [][/\ tick'.kind = "reset" => game'.mintingState = IdleMint
     /\ (game.mintingState = IdleMint /\ game'.mintingState # IdleMint)
          => game'.presses = game.presses + 1]_vars

\* C36: every connectWallet attempt ends: whenever the connect button has
\* been pressed and the wallet is loading, eventually isLoading is false
\* again (the wallet connected or an error shown), whatever the provider
\* answers.
C36_ConnectEnds == welcome.wallet.isLoading ~> ~welcome.wallet.isLoading

\* C37: the game screen is shown only with a wallet address.  showWelcome
\* becomes false only when signedIn is true and wallet.address is truthy,
\* the address is stored as walletAddress in the same step, and so whenever
\* the game screen is shown the test !walletAddress of handleMintSBT fails.
C37_GameOnlyWithWallet ==
  /\ [](~game.showWelcome => game.walletAddress)
  /\ [][(game.showWelcome /\ ~game'.showWelcome)
          => welcome.signedIn /\ Truthy(welcome.wallet.address) /\ game'.walletAddress]_vars

\* Play has been pressed after a connectWallet that went through the Web3
\* provider.
C37_Witness ==
  /\ ~game.showWelcome
  /\ game.walletAddress
  /\ welcome.attempts = 1
  /\ welcome.account = "0xA"
  /\ welcome.wallet.address = "0xA"

====
